---- MODULE Spec2Model ----
(***************************************************************************)
(* Progressive plan streaming and reconciliation of the trip planner:      *)
(* the SSE frame decoder, the partial JSON extractor, the title            *)
(* canonicaliser, the progressive merge / final replace of the plan        *)
(* document (frontend Chat.tsx), the drag engine (frontend Content.tsx)    *)
(* and the server's final clamp (server chat.js).                          *)
(*                                                                         *)
(* Text is modelled as a sequence of tokens.  The characters the code      *)
(* inspects one by one (quote, backslash, brackets, braces, colon, comma,  *)
(* blank, newline, carriage return, ampersand, punctuation) are tokens of  *)
(* their own; a run of letters or digits that the code only ever handles   *)
(* as a whole (a word of a title, a JSON key, "data:", "event:") is one    *)
(* token.  No word token is the concatenation of other tokens, so two      *)
(* token sequences are equal exactly when the strings are.                 *)
(***************************************************************************)
EXTENDS Integers, Sequences, FiniteSets, Bags, TLC

Quote == "\""
Backslash == "\\"
NL == "\n"
CR == "\r"
TAB == "\t"
SP == " "

Null == <<"null">>

Min(a, b) == IF a < b THEN a ELSE b
Max(a, b) == IF a > b THEN a ELSE b

\* LET r == v IN Body(r)
Let(v, Body(_)) == Body(v)

RECURSIVE Flatten(_)
Flatten(ss) == IF ss = <<>> THEN <<>> ELSE Head(ss) \o Flatten(Tail(ss))

Range(s) == {s[i] : i \in 1..Len(s)}

\* Array.prototype.slice(a, b) on a sequence, 0-based, end exclusive
Slice(s, a, b) == SubSeq(s, a + 1, Min(b, Len(s)))

\* \s of the regular expressions
IsSpace(c) == c \in {SP, NL, CR, TAB}

(***************************************************************************)
(* JSON.parse on token text.  A value is a record [t, v]: t = "str" with v *)
(* the unescaped tokens, "lit" (number, true, false, null), "arr" with v   *)
(* the elements, "obj" with v the <<key, value>> members in source order.  *)
(***************************************************************************)
Literals == {"null", "true", "false", "0", "1", "2", "7"}

Fail == [ok |-> FALSE, val |-> [t |-> "lit", v |-> <<>>], pos |-> 0]

RECURSIVE SkipWs(_, _)
SkipWs(s, i) == IF i <= Len(s) /\ IsSpace(s[i]) THEN SkipWs(s, i + 1) ELSE i

RECURSIVE ParseString(_, _, _)
ParseString(s, i, acc) ==
  IF i > Len(s) THEN Fail
  ELSE IF s[i] = Quote THEN [ok |-> TRUE, val |-> [t |-> "str", v |-> acc], pos |-> i + 1]
  ELSE IF s[i] = Backslash THEN
    IF i + 1 > Len(s) THEN Fail
    ELSE IF s[i + 1] \in {Quote, Backslash, "/"} THEN ParseString(s, i + 2, Append(acc, s[i + 1]))
    ELSE IF s[i + 1] = "n" THEN ParseString(s, i + 2, Append(acc, NL))
    ELSE Fail
  ELSE IF s[i] \in {NL, CR, TAB} THEN Fail
  ELSE ParseString(s, i + 1, Append(acc, s[i]))

RECURSIVE ParseValue(_, _)
RECURSIVE ParseMembers(_, _, _)
RECURSIVE ParseElements(_, _, _)

ParseMembers(s, i, acc) ==
  LET j == SkipWs(s, i) IN
  IF j > Len(s) \/ s[j] # Quote THEN Fail
  ELSE LET k == ParseString(s, j + 1, <<>>) IN
    IF ~k.ok THEN Fail
    ELSE LET c == SkipWs(s, k.pos) IN
      IF c > Len(s) \/ s[c] # ":" THEN Fail
      ELSE LET v == ParseValue(s, c + 1) IN
        IF ~v.ok THEN Fail
        ELSE LET e == SkipWs(s, v.pos)
                 acc2 == Append(acc, <<k.val.v, v.val>>) IN
          IF e > Len(s) THEN Fail
          ELSE IF s[e] = "," THEN ParseMembers(s, e + 1, acc2)
          ELSE IF s[e] = "}" THEN [ok |-> TRUE, val |-> [t |-> "obj", v |-> acc2], pos |-> e + 1]
          ELSE Fail

ParseElements(s, i, acc) ==
  LET v == ParseValue(s, i) IN
  IF ~v.ok THEN Fail
  ELSE LET e == SkipWs(s, v.pos)
           acc2 == Append(acc, v.val) IN
    IF e > Len(s) THEN Fail
    ELSE IF s[e] = "," THEN ParseElements(s, e + 1, acc2)
    ELSE IF s[e] = "]" THEN [ok |-> TRUE, val |-> [t |-> "arr", v |-> acc2], pos |-> e + 1]
    ELSE Fail

ParseValue(s, i) ==
  LET j == SkipWs(s, i) IN
  IF j > Len(s) THEN Fail
  ELSE IF s[j] = Quote THEN ParseString(s, j + 1, <<>>)
  ELSE IF s[j] = "{" THEN
    LET k == SkipWs(s, j + 1) IN
    IF k <= Len(s) /\ s[k] = "}"
    THEN [ok |-> TRUE, val |-> [t |-> "obj", v |-> <<>>], pos |-> k + 1]
    ELSE ParseMembers(s, j + 1, <<>>)
  ELSE IF s[j] = "[" THEN
    LET k == SkipWs(s, j + 1) IN
    IF k <= Len(s) /\ s[k] = "]"
    THEN [ok |-> TRUE, val |-> [t |-> "arr", v |-> <<>>], pos |-> k + 1]
    ELSE ParseElements(s, j + 1, <<>>)
  ELSE IF s[j] \in Literals THEN [ok |-> TRUE, val |-> [t |-> "lit", v |-> <<s[j]>>], pos |-> j + 1]
  ELSE Fail

JSONparse(s) ==
  Let(ParseValue(s, 1), LAMBDA v : IF v.ok /\ SkipWs(s, v.pos) = Len(s) + 1 THEN v ELSE Fail)

\* obj.key of a parsed object: <<>> when absent (undefined), else <<value>>;
\* a repeated key keeps its last value
RECURSIVE FieldOf(_, _)
FieldOf(members, key) ==
  IF members = <<>> THEN <<>>
  ELSE LET rest == FieldOf(Tail(members), key) IN
       IF rest # <<>> THEN rest
       ELSE IF Head(members)[1] = key THEN <<Head(members)[2]>> ELSE <<>>

Field(val, key) == IF val.t = "obj" THEN FieldOf(val.v, <<key>>) ELSE <<>>

IsStringField(f) == f # <<>> /\ f[1].t = "str"

(***************************************************************************)
(* JSON.stringify of a parsed value (no blanks, quotes, backslashes and    *)
(* newlines of strings escaped).                                           *)
(***************************************************************************)
RECURSIVE EscapeStr(_)
EscapeStr(w) ==
  IF w = <<>> THEN <<>>
  ELSE (IF Head(w) \in {Quote, Backslash} THEN <<Backslash, Head(w)>>
        ELSE IF Head(w) = NL THEN <<Backslash, "n">>
        ELSE <<Head(w)>>) \o EscapeStr(Tail(w))

StrText(w) == <<Quote>> \o EscapeStr(w) \o <<Quote>>

RECURSIVE Stringify(_)
RECURSIVE StringifyList(_, _)
StringifyList(vs, isObj) ==
  IF vs = <<>> THEN <<>>
  ELSE (IF isObj THEN StrText(Head(vs)[1]) \o <<":">> \o Stringify(Head(vs)[2])
        ELSE Stringify(Head(vs)))
       \o (IF Len(vs) > 1 THEN <<",">> ELSE <<>>)
       \o StringifyList(Tail(vs), isObj)

Stringify(val) ==
  IF val.t = "str" THEN StrText(val.v)
  ELSE IF val.t = "lit" THEN val.v
  ELSE IF val.t = "arr" THEN <<"[">> \o StringifyList(val.v, FALSE) \o <<"]">>
  ELSE <<"{">> \o StringifyList(val.v, TRUE) \o <<"}">>

(***************************************************************************)
(* Plan items.  An optional field is <<>> (undefined) or <<value>>.       *)
(***************************************************************************)
MkItem(title, desc) ==
  [title |-> title, short_description |-> desc, estimated_cost |-> <<>>, image_url |-> <<>>]

\* the plan item a parsed object stands for (the fields the planner reads)
ToItem(val) ==
  [title |-> Field(val, "title")[1].v,
   short_description |-> Field(val, "short_description")[1].v,
   estimated_cost |-> IF Field(val, "estimated_cost") = <<>> THEN <<>>
                      ELSE <<Field(val, "estimated_cost")[1].v>>,
   image_url |-> <<>>]

isStrictItem(val) ==
  /\ val.t = "obj"
  /\ IsStringField(Field(val, "title"))
  /\ IsStringField(Field(val, "short_description"))
  /\ (Field(val, "estimated_cost") = <<>> \/ IsStringField(Field(val, "estimated_cost")))

(***************************************************************************)
(* normalizeTitleKey: lower-case, strip one leading generic verb, & -> and,*)
(* drop every character outside [a-z0-9\s], collapse blanks, trim.         *)
(***************************************************************************)
toLowerCase(c) ==
  CASE c = "Visit" -> "visit"
    [] c = "VISIT" -> "visit"
    [] c = "Explore" -> "explore"
    [] c = "Go" -> "go"
    [] c = "To" -> "to"
    [] c = "See" -> "see"
    [] c = "Balboa" -> "balboa"
    [] c = "Park" -> "park"
    [] c = "Zoo" -> "zoo"
    [] c = "ZOO" -> "zoo"
    [] c = "Pier" -> "pier"
    [] c = "Museum" -> "museum"
    [] c = "Beach" -> "beach"
    [] c = "Cafe" -> "cafe"
    [] c = "Market" -> "market"
    [] c = "Tower" -> "tower"
    [] c = "Garden" -> "garden"
    [] c = "Lake" -> "lake"
    [] c = "Harbor" -> "harbor"
    [] c = "Free" -> "free"
    [] c = "FREE" -> "free"
    [] c = "Entry" -> "entry"
    [] c = "Walk" -> "walk"
    [] c = "WALK" -> "walk"
    [] c = "Tour" -> "tour"
    [] c = "Discover" -> "discover"
    [] c = "Fame" -> "fame"
    [] OTHER -> c

Words == {"visit", "explore", "walk", "tour", "see", "go", "to", "discover", "and",
          "balboa", "park", "zoo", "pier", "museum", "beach", "cafe", "market", "tower",
          "garden", "lake", "harbor", "of", "fame",
          "visitor", "a", "b", "c", "d", "e", "f", "0", "1", "2", "7"}

GenericVerbs == {"visit", "explore", "walk", "tour", "see", "discover"}

RECURSIVE SkipSpace(_, _)
SkipSpace(s, i) == IF i <= Len(s) /\ IsSpace(s[i]) THEN SkipSpace(s, i + 1) ELSE i

\* .replace(/^[\s]*(visit|explore|walk|tour|see|go to|discover)\s+/g, '')
\* the index after the verb that starts at a, 0 when there is none
VerbEnd(s, a) ==
  IF a <= Len(s) /\ s[a] \in GenericVerbs THEN a + 1
  ELSE IF a + 2 <= Len(s) /\ s[a] = "go" /\ s[a + 1] = SP /\ s[a + 2] = "to" THEN a + 3
  ELSE 0

StripPrefix(s) ==
  Let(VerbEnd(s, SkipSpace(s, 1)), LAMBDA b :
    IF b # 0 /\ SkipSpace(s, b) > b THEN SubSeq(s, SkipSpace(s, b), Len(s)) ELSE s)

RECURSIVE CollapseSpace(_)
CollapseSpace(s) ==
  IF s = <<>> THEN <<>>
  ELSE IF IsSpace(Head(s)) THEN <<SP>> \o CollapseSpace(SubSeq(s, SkipSpace(s, 1), Len(s)))
  ELSE <<Head(s)>> \o CollapseSpace(Tail(s))

Trim(s) ==
  LET a == SkipSpace(s, 1)
      rev == [i \in 1..Len(s) |-> s[Len(s) + 1 - i]]
      z == Len(s) + 1 - SkipSpace(rev, 1)
  IN SubSeq(s, a, z)

LowerCase(t) == [i \in 1..Len(t) |-> toLowerCase(t[i])]

\* .replace(/&/g, 'and')
AmpToAnd(s) == [i \in 1..Len(s) |-> IF s[i] = "&" THEN "and" ELSE s[i]]

\* .replace(/[^a-z0-9\s]/g, '')
KeepAlnumSpace(s) == SelectSeq(s, LAMBDA c : c \in Words \/ IsSpace(c))

normalizeTitleKey(t) ==
  Trim(CollapseSpace(KeepAlnumSpace(AmpToAnd(StripPrefix(LowerCase(t))))))

MAX_ITEMS == 5
MIN_ITEMS == 3

(***************************************************************************)
(* Chat.tsx: dedupeWithinDay, sanitizePlanDays, mergePlanProgress          *)
(***************************************************************************)
RECURSIVE DedupeLoop(_, _, _)
DedupeLoop(day, seen, out) ==
  IF day = <<>> THEN out
  ELSE Let(normalizeTitleKey(Head(day).title), LAMBDA key :
         IF key \in seen THEN DedupeLoop(Tail(day), seen, out)
         ELSE IF Len(out) + 1 >= MAX_ITEMS THEN Append(out, Head(day))
         ELSE DedupeLoop(Tail(day), seen \cup {key}, Append(out, Head(day))))

dedupeWithinDay(day) == DedupeLoop(day, {}, <<>>)

sanitizePlanDays(days) == [d \in 1..Len(days) |-> dedupeWithinDay(days[d])]

RECURSIVE MergeLoop(_, _, _)
MergeLoop(existing, seen, inc) ==
  IF inc = <<>> THEN existing
  ELSE IF Len(existing) >= MAX_ITEMS THEN existing
  ELSE Let(normalizeTitleKey(Head(inc).title), LAMBDA key :
         IF key \notin seen
         THEN MergeLoop(Append(existing, Head(inc)), seen \cup {key}, Tail(inc))
         ELSE MergeLoop(existing, seen, Tail(inc)))

\* mutation: the candidates are appended without the key test and the safety pass
MergeDayAppend(existing, inc) == existing \o inc

MergeDay(existing, inc) ==
  dedupeWithinDay(MergeLoop(existing, {normalizeTitleKey(existing[i].title) : i \in 1..Len(existing)}, inc))

mergePlanProgress(prev, incoming) ==
  [d \in 1..Max(Len(prev), Len(incoming)) |->
     IF d > Len(incoming) THEN prev[d]
     ELSE MergeDay(IF d <= Len(prev) THEN prev[d] ELSE <<>>, incoming[d])]

(***************************************************************************)
(* Chat.tsx: extractCompletedActivities.  Indices are 0-based as in the    *)
(* source: the character at index i is jsonText[i + 1].                    *)
(***************************************************************************)
\* /"planDays"\s*:\s*\[/ at 0-based index m: 0 when it does not match,
\* else match.index + match[0].length
PlanDaysMatchEnd(s, m) ==
  IF m + 3 <= Len(s) /\ s[m + 1] = Quote /\ s[m + 2] = "planDays" /\ s[m + 3] = Quote
  THEN LET c == SkipSpace(s, m + 4) IN
       IF c <= Len(s) /\ s[c] = ":"
       THEN LET b == SkipSpace(s, c + 1) IN
            IF b <= Len(s) /\ s[b] = "[" THEN b ELSE 0
       ELSE 0
  ELSE 0

PlanDaysMatches(s) == {m \in 0..(Len(s) - 1) : PlanDaysMatchEnd(s, m) # 0}

ScanInit ==
  [inString |-> FALSE, escape |-> FALSE, depthSquare |-> 1, depthCurly |-> 0,
   currentDay |-> <<>>, days |-> <<>>, objStart |-> -1]

\* mutation: the closed day replaces the days collected so far
CloseDayReplace(st) ==
  [st EXCEPT !.days = IF Len(st.currentDay[1]) > 0 THEN <<st.currentDay[1]>> ELSE @,
             !.currentDay = <<>>,
             !.depthSquare = @ - 1]

\* the ']' that closes a day: if (currentDay.length > 0) days.push(currentDay)
CloseDay(st) ==
  [st EXCEPT !.days = IF Len(st.currentDay[1]) > 0 THEN Append(@, st.currentDay[1]) ELSE @,
             !.currentDay = <<>>,
             !.depthSquare = @ - 1]

\* mutation: a backslash inside a string is an ordinary character, so the quote
\* after it ends the string
ScanStepNoEscape(jsonText, i, st) ==
  LET ch == jsonText[i + 1] IN
  IF st.inString THEN
    IF ch = Quote THEN [st EXCEPT !.inString = FALSE] ELSE st
  ELSE IF ch = Quote THEN [st EXCEPT !.inString = TRUE]
  ELSE IF ch = "[" THEN
    [st EXCEPT !.depthSquare = @ + 1,
               !.currentDay = IF st.depthSquare + 1 = 2 THEN <<(<<>>)>> ELSE @]
  ELSE IF ch = "]" THEN
    IF st.depthSquare = 2 /\ st.currentDay # <<>>
    THEN CloseDay(st)
    ELSE [st EXCEPT !.depthSquare = @ - 1]
  ELSE IF ch = "{" THEN
    [st EXCEPT !.depthCurly = @ + 1,
               !.objStart = IF st.depthSquare = 2 /\ st.depthCurly + 1 = 1 THEN i ELSE @]
  ELSE IF ch = "}" THEN
    IF st.depthSquare = 2 /\ st.depthCurly = 1 /\ st.objStart >= 0 /\ st.currentDay # <<>>
    THEN Let(JSONparse(Slice(jsonText, st.objStart, i + 1)), LAMBDA obj :
           [st EXCEPT !.currentDay = IF obj.ok /\ isStrictItem(obj.val)
                                     THEN <<Append(st.currentDay[1], ToItem(obj.val))>> ELSE @,
                      !.objStart = -1,
                      !.depthCurly = @ - 1])
    ELSE [st EXCEPT !.depthCurly = @ - 1]
  ELSE st

ScanStep(jsonText, i, st) ==
  LET ch == jsonText[i + 1] IN
  IF st.inString THEN
    IF st.escape THEN [st EXCEPT !.escape = FALSE]
    ELSE IF ch = Backslash THEN [st EXCEPT !.escape = TRUE]
    ELSE IF ch = Quote THEN [st EXCEPT !.inString = FALSE]
    ELSE st
  ELSE IF ch = Quote THEN [st EXCEPT !.inString = TRUE]
  ELSE IF ch = "[" THEN
    [st EXCEPT !.depthSquare = @ + 1,
               !.currentDay = IF st.depthSquare + 1 = 2 THEN <<(<<>>)>> ELSE @]
  ELSE IF ch = "]" THEN
    IF st.depthSquare = 2 /\ st.currentDay # <<>>
    THEN CloseDay(st)
    ELSE [st EXCEPT !.depthSquare = @ - 1]
  ELSE IF ch = "{" THEN
    [st EXCEPT !.depthCurly = @ + 1,
               !.objStart = IF st.depthSquare = 2 /\ st.depthCurly + 1 = 1 THEN i ELSE @]
  ELSE IF ch = "}" THEN
    IF st.depthSquare = 2 /\ st.depthCurly = 1 /\ st.objStart >= 0 /\ st.currentDay # <<>>
    THEN Let(JSONparse(Slice(jsonText, st.objStart, i + 1)), LAMBDA obj :
           [st EXCEPT !.currentDay = IF obj.ok /\ isStrictItem(obj.val)
                                     THEN <<Append(st.currentDay[1], ToItem(obj.val))>> ELSE @,
                      !.objStart = -1,
                      !.depthCurly = @ - 1])
    ELSE [st EXCEPT !.depthCurly = @ - 1]
  ELSE st

\* the while loop over the indices lo..hi-1, in two halves
RECURSIVE ScanRange(_, _, _, _)
ScanRange(jsonText, lo, hi, st) ==
  IF lo >= hi \/ st.depthSquare <= 0 THEN st
  ELSE IF hi = lo + 1 THEN ScanStep(jsonText, lo, st)
  ELSE LET mid == (lo + hi) \div 2
       IN ScanRange(jsonText, mid, hi, ScanRange(jsonText, lo, mid, st))

\* mutation: the day being read when the text ends is handed over too
ScanFromFlush(jsonText, i, st) ==
  Let(ScanRange(jsonText, i, Len(jsonText), st), LAMBDA end :
    IF end.currentDay # <<>> THEN [end EXCEPT !.days = Append(@, end.currentDay[1])] ELSE end)

ScanFrom(jsonText, i, st) == ScanRange(jsonText, i, Len(jsonText), st)

extractCompletedActivities(jsonText) ==
  Let(PlanDaysMatches(jsonText), LAMBDA ms :
    IF ms = {} THEN <<>>
    ELSE Let(SelectSeq(ScanFrom(jsonText,
                                PlanDaysMatchEnd(jsonText, CHOOSE x \in ms : \A y \in ms : x <= y),
                                ScanInit).days,
                       LAMBDA d : Len(d) > 0),
             LAMBDA kept : [d \in 1..Len(kept) |-> dedupeWithinDay(kept[d])]))

(***************************************************************************)
(* server chat.js: coerceCost.  A cost text is a sequence of tokens: "$",  *)
(* a run of at most six digits (one token), a word, a separator.           *)
(***************************************************************************)
\* the en dash and the em dash, one token each
EnDash == "<en-dash>"
EmDash == "<em-dash>"

NumToks == {"0", "5", "05", "10", "25", "40", "50", "100"}

\* parseInt(n, 10)
NumVal(c) ==
  CASE c = "0" -> 0 [] c = "5" -> 5 [] c = "05" -> 5 [] c = "10" -> 10 [] c = "25" -> 25
    [] c = "40" -> 40 [] c = "50" -> 50 [] c = "100" -> 100 [] OTHER -> -1

\* `${n}`: the decimal numeral of n
NumText(n) ==
  CASE n = 0 -> "0" [] n = 5 -> "5" [] n = 10 -> "10" [] n = 25 -> "25"
    [] n = 40 -> "40" [] n = 50 -> "50" [] n = 100 -> "100" [] OTHER -> "NaN"

\* \w of the regular expressions: letters, digits, underscore
IsWordTok(c) == c \in Words \/ c \in NumToks \/ c \in {"free", "entry", "usd"}

WordAt(raw, i, w) ==
  /\ raw[i] = w
  /\ (i = 1 \/ ~IsWordTok(raw[i - 1]))
  /\ (i = Len(raw) \/ ~IsWordTok(raw[i + 1]))

\* mutation: the two numbers are written in the order they were found
CostFromUnordered(raw, nums) ==
  IF \E i \in 1..Len(raw) : WordAt(raw, i, "free") THEN <<(<<"free">>)>>
  ELSE IF Len(nums) = 1 THEN <<(<<"$", NumText(NumVal(nums[1]))>>)>>
  ELSE IF Len(nums) >= 2
    THEN <<(<<"$", NumText(NumVal(nums[1])), EnDash, "$", NumText(NumVal(nums[2]))>>)>>
  ELSE <<>>

\* the results once the text is lower-cased and trimmed and its numbers collected
CostFrom(raw, nums) ==
  IF (\E i \in 1..Len(raw) : WordAt(raw, i, "free"))
     \/ (\E i \in 1..(Len(raw) - 1) :
           /\ raw[i] = "$" /\ raw[i + 1] = "0"
           /\ (i + 1 = Len(raw) \/ ~IsWordTok(raw[i + 2])))
  THEN <<(<<"free">>)>>
  ELSE IF Len(nums) = 1 THEN <<(<<"$", NumText(Max(0, NumVal(nums[1])))>>)>>
  ELSE IF Len(nums) >= 2 THEN
    (IF NumVal(nums[1]) = NumVal(nums[2]) THEN <<(<<"$", NumText(NumVal(nums[1]))>>)>>
     ELSE IF NumVal(nums[1]) > NumVal(nums[2])
       THEN <<(<<"$", NumText(NumVal(nums[2])), EnDash, "$", NumText(NumVal(nums[1]))>>)>>
     ELSE <<(<<"$", NumText(NumVal(nums[1])), EnDash, "$", NumText(NumVal(nums[2]))>>)>>)
  ELSE IF raw = <<"$", "$">> THEN <<(<<"$", "10", EnDash, "$", "25">>)>>
  ELSE IF raw = <<"$", "$", "$">> THEN <<(<<"$", "25", EnDash, "$", "50">>)>>
  ELSE IF Len(raw) >= 4 /\ \A i \in 1..Len(raw) : raw[i] = "$"
    THEN <<(<<"$", "50", EnDash, "$", "100">>)>>
  ELSE <<>>

CostOf(raw) == CostFrom(raw, SelectSeq(raw, LAMBDA c : c \in NumToks))

coerceCost(input) ==
  IF input = <<>> \/ input[1] = <<>> THEN <<>>
  ELSE CostOf(Trim(LowerCase(input[1])))

(***************************************************************************)
(* server chat.js: suggestionsToStrictDays, normalizeStrictDays,           *)
(* dedupeWithinDayByTitle, enforceDayCount3to5.  A function that can throw *)
(* returns [ok, v]; ok = FALSE is the TypeError the JavaScript raises.     *)
(***************************************************************************)
\* the array element `undefined`
UndefItem ==
  [title |-> <<>>, short_description |-> <<>>, estimated_cost |-> <<>>,
   image_url |-> <<"undefined">>]

\* preferences.duration.nights when it is no number
NoNights == <<>>

Truthy(val) ==
  IF val.t = "lit" THEN val.v \notin {<<"null">>, <<"false">>, <<"0">>}
  ELSE IF val.t = "str" THEN val.v # <<>>
  ELSE TRUE

Nullish(f) == f = <<>> \/ (f[1].t = "lit" /\ f[1].v = <<"null">>)

\* a || b on optional parsed values
OrElse(f, g) == IF f # <<>> /\ Truthy(f[1]) THEN f ELSE g

StrOrEmpty(f) == IF IsStringField(f) THEN f[1].v ELSE <<>>

CeilDiv(a, b) == (a + b - 1) \div b

\* one element of suggestions.map(...)
SuggestionItem(sg) ==
  [title |-> StrOrEmpty(Field(sg, "name")),
   short_description |-> StrOrEmpty(OrElse(Field(sg, "why"), Field(sg, "category"))),
   estimated_cost |-> coerceCost(IF IsStringField(Field(sg, "estSpend"))
                                 THEN <<Field(sg, "estSpend")[1].v>> ELSE <<>>),
   image_url |-> <<>>]

\* pool.push(items[i % denom]) for i < needed
PoolOf(items, needed) ==
  [i \in 1..needed |->
     IF Len(items) = 0 THEN UndefItem ELSE items[((i - 1) % Max(1, Len(items))) + 1]]

\* out.push(pool.slice(start, start + perDay)) for d < days
SplitPool(pool, days, perDay) ==
  [d \in 1..days |-> Slice(pool, (d - 1) * perDay, (d - 1) * perDay + perDay)]

FallbackDays(items, days) ==
  Let(Min(5, Max(3, CeilDiv(Len(items), days))), LAMBDA perDay :
    SplitPool(PoolOf(items, days * perDay), days, perDay))

suggestionsToStrictDays(suggestions, nights) ==
  FallbackDays([i \in 1..Len(suggestions) |-> SuggestionItem(suggestions[i])],
               Max(1, IF nights = NoNights THEN 1 ELSE nights[1]))

\* one item of normalizeStrictDays: <<>> when title or description is no string
StrictItemOf(it) ==
  LET title == Field(it, "title")
      shortDesc == IF Nullish(Field(it, "short_description")) THEN Field(it, "short_desc")
                   ELSE Field(it, "short_description")
      estRaw == IF ~Nullish(Field(it, "estimated_cost")) THEN Field(it, "estimated_cost")
                ELSE IF ~Nullish(Field(it, "est_cost")) THEN Field(it, "est_cost")
                ELSE Field(it, "estSpend")
  IN IF ~IsStringField(title) \/ ~IsStringField(shortDesc) THEN <<>>
     ELSE <<[title |-> title[1].v, short_description |-> shortDesc[1].v,
             estimated_cost |-> coerceCost(IF IsStringField(estRaw) THEN <<estRaw[1].v>> ELSE <<>>),
             image_url |-> <<>>]>>

\* null is [ok |-> FALSE]
normalizeStrictDays(input) ==
  IF input.t # "arr" THEN [ok |-> FALSE, v |-> <<>>]
  ELSE IF \E d \in 1..Len(input.v) :
            \/ input.v[d].t # "arr"
            \/ Len(input.v[d].v) < 3
            \/ Len(input.v[d].v) > 5
            \/ \E i \in 1..Len(input.v[d].v) : StrictItemOf(input.v[d].v[i]) = <<>>
       THEN [ok |-> FALSE, v |-> <<>>]
  ELSE [ok |-> TRUE,
        v |-> [d \in 1..Len(input.v) |->
                 [i \in 1..Len(input.v[d].v) |-> StrictItemOf(input.v[d].v[i])[1]]]]

RECURSIVE DedupeByTitleLoop(_, _, _)
DedupeByTitleLoop(day, seen, out) ==
  IF day = <<>> THEN out
  ELSE LET key == normalizeTitleKey(Head(day).title) IN
       IF key \in seen THEN DedupeByTitleLoop(Tail(day), seen, out)
       ELSE DedupeByTitleLoop(Tail(day), seen \cup {key}, Append(out, Head(day)))

dedupeWithinDayByTitle(day) == DedupeByTitleLoop(day, {}, <<>>)

\* mutation: the fill takes candidates without the title test
FillFromAny(day, titles, pool) ==
  IF Len(day) >= MIN_ITEMS THEN day
  ELSE day \o SubSeq(pool, 1, Min(Len(pool), MIN_ITEMS - Len(day)))

\* the fill loop over one pool: stops at needMin
RECURSIVE FillFrom(_, _, _)
FillFrom(day, titles, pool) ==
  IF pool = <<>> \/ Len(day) >= MIN_ITEMS THEN day
  ELSE LET key == normalizeTitleKey(Head(pool).title) IN
       IF key \notin titles
       THEN FillFrom(Append(day, Head(pool)), titles \cup {key}, Tail(pool))
       ELSE FillFrom(day, titles, Tail(pool))

KeysOf(day) == {normalizeTitleKey(day[i].title) : i \in 1..Len(day)}

\* the candidates the fill loop reads before it stops: every one is dereferenced
RECURSIVE FillReads(_, _, _)
FillReads(day, titles, pool) ==
  IF pool = <<>> \/ Len(day) >= MIN_ITEMS THEN <<>>
  ELSE <<Head(pool)>> \o
       (IF Head(pool) = UndefItem THEN <<>>
        ELSE LET key == normalizeTitleKey(Head(pool).title) IN
             IF key \notin titles
             THEN FillReads(Append(day, Head(pool)), titles \cup {key}, Tail(pool))
             ELSE FillReads(day, titles, Tail(pool)))

\* a candidate the loops dereference is undefined: TypeError
EnforceThrows(src, day, day1, own, all) ==
  \/ UndefItem \in Range(src)
  \/ /\ Len(day) < MIN_ITEMS
     /\ \/ UndefItem \in Range(FillReads(day, KeysOf(day), own))
        \/ /\ Len(day1) < MIN_ITEMS
           /\ UndefItem \in Range(FillReads(day1, KeysOf(day1), all))

\* day1 is the day after the first pool (fallback[i]); the second pool is fallback.flat()
EnforceFilled(src, day, day1, own, all) ==
  IF EnforceThrows(src, day, day1, own, all) THEN [ok |-> FALSE, v |-> <<>>]
  ELSE [ok |-> TRUE,
        v |-> Slice(IF Len(day1) >= MIN_ITEMS THEN day1 ELSE FillFrom(day1, KeysOf(day1), all), 0, 5)]

\* day is the de-duplicated day cut to 5
EnforceDeduped(src, day, own, all) ==
  EnforceFilled(src, day, FillFrom(day, KeysOf(day), own), own, all)

\* one round of the loop: src is planDays[i] || [], own is fallback[i], all is fallback.flat()
EnforceDay(src, own, all) ==
  EnforceDeduped(src, Slice(dedupeWithinDayByTitle(src), 0, 5), own, all)

EnforceEach(planDays, fallback) ==
  [i \in 1..Max(Len(planDays), 1) |->
     EnforceDay(IF i <= Len(planDays) THEN planDays[i] ELSE <<>>,
                IF i <= Len(fallback) THEN fallback[i] ELSE <<>>,
                Flatten(fallback))]

EnforceAll(each) ==
  IF \E i \in 1..Len(each) : ~each[i].ok THEN [ok |-> FALSE, v |-> <<>>]
  ELSE [ok |-> TRUE, v |-> [i \in 1..Len(each) |-> each[i].v]]

enforceDayCount3to5(planDays, suggestions, nights) ==
  EnforceAll(EnforceEach(planDays,
                         suggestionsToStrictDays(suggestions,
                                                 IF nights = NoNights THEN <<Max(Len(planDays), 1)>>
                                                 ELSE nights)))

(***************************************************************************)
(* server chat.js: postChatStream after the generator's stream has ended:  *)
(* the terminal frame is jsonFinal with the clamped plan, or error.        *)
(* PLACES_API_KEY is not configured (place lookup is an external service). *)
(***************************************************************************)
StrVal(w) == [t |-> "str", v |-> w]
ArrVal(vs) == [t |-> "arr", v |-> vs]
ObjVal(ms) == [t |-> "obj", v |-> ms]

ItemVal(it) ==
  ObjVal(<< <<(<<"title">>), StrVal(it.title)>>,
            <<(<<"short_description">>), StrVal(it.short_description)>> >>
         \o (IF it.estimated_cost = <<>> THEN <<>>
             ELSE << <<(<<"estimated_cost">>), StrVal(it.estimated_cost[1])>> >>))

DaysVal(days) ==
  ArrVal([d \in 1..Len(days) |-> ArrVal([i \in 1..Len(days[d]) |-> ItemVal(days[d][i])])])

\* { ...parsed, planDays }
WithPlanDays(parsed, daysVal) ==
  IF parsed.t # "obj" THEN ObjVal(<< <<(<<"planDays">>), daysVal>> >>)
  ELSE IF \E i \in 1..Len(parsed.v) : parsed.v[i][1] = <<"planDays">>
  THEN ObjVal([i \in 1..Len(parsed.v) |->
                 IF parsed.v[i][1] = <<"planDays">> THEN <<parsed.v[i][1], daysVal>> ELSE parsed.v[i]])
  ELSE ObjVal(Append(parsed.v, <<(<<"planDays">>), daysVal>>))

ErrorFrameOf(msg) == [event |-> "error", data |-> <<msg>>]

SuggestionsOf(parsed) ==
  LET f == Field(parsed, "suggestions") IN
  IF f # <<>> /\ f[1].t = "arr" THEN f[1].v ELSE <<>>

\* parsed.planDays ? normalizeStrictDays(parsed.planDays) : null
NormalizedOf(pd) ==
  IF pd # <<>> /\ Truthy(pd[1]) THEN normalizeStrictDays(pd[1]) ELSE [ok |-> FALSE, v |-> <<>>]

\* planDays before the final clamp
InitialDays(norm, suggs, nights) ==
  IF ~norm.ok \/ Len(norm.v) = 0 THEN suggestionsToStrictDays(suggs, nights) ELSE norm.v

TerminalOf(parsed, enforced) ==
  IF ~enforced.ok THEN ErrorFrameOf("Invalid JSON returned by the model.")
  ELSE [event |-> "jsonFinal", data |-> Stringify(WithPlanDays(parsed, DaysVal(enforced.v)))]

\* the final clamp of the plan of the parsed document
EnforcedOf(parsed, suggs, nights) ==
  enforceDayCount3to5(InitialDays(NormalizedOf(Field(parsed, "planDays")), suggs, nights), suggs, nights)

ClampParsed(parsed, suggs, nights) == TerminalOf(parsed, EnforcedOf(parsed, suggs, nights))

TerminalOfParse(p, nights) ==
  IF ~p.ok \/ (p.val.t = "lit" /\ p.val.v = <<"null">>)
  THEN ErrorFrameOf("Invalid JSON returned by the model.")
  ELSE ClampParsed(p.val, SuggestionsOf(p.val), nights)

postChatStreamTerminal(jsonBuf, nights) == TerminalOfParse(JSONparse(jsonBuf), nights)

(***************************************************************************)
(* The generator's documents of the planning turns, with the nights of the *)
(* request.                                                                *)
(***************************************************************************)
GenItem(title) ==
  ObjVal(<< <<(<<"title">>), StrVal(title)>>, <<(<<"short_description">>), StrVal(<<"w">>)>> >>)

GenSuggestion(name) == ObjVal(<< <<(<<"name">>), StrVal(<<name>>)>> >>)

GenDoc(suggestions, days) ==
  ObjVal(<< <<(<<"replyText">>), StrVal(<<"Hi">>)>>,
            <<(<<"suggestions">>), ArrVal(suggestions)>>,
            <<(<<"planDays">>), ArrVal([d \in 1..Len(days) |-> ArrVal(days[d])])>> >>)

BalboaPark == <<"Balboa", SP, "Park">>
VisitBalboaPark == <<"Visit", SP, "Balboa", SP, "Park">>

\* the end-to-end scenario: the second title collapses onto the first
DocBalboa ==
  GenDoc(<<GenSuggestion("Pier"), GenSuggestion("Museum"), GenSuggestion("Beach"), GenSuggestion("Cafe")>>,
         << <<GenItem(BalboaPark), GenItem(VisitBalboaPark), GenItem(<<"Zoo">>)>> >>)

\* an over-full day and an under-full day that names a venue of the first under
\* another title; the server discards such a plan and builds one from the suggestions
DocOverfull ==
  GenDoc(<<GenSuggestion("Market"), GenSuggestion("Garden"), GenSuggestion("Lake"),
           GenSuggestion("Harbor")>>,
         << <<GenItem(BalboaPark), GenItem(<<"Zoo">>), GenItem(<<"Pier">>), GenItem(<<"Museum">>),
              GenItem(<<"Beach">>), GenItem(<<"Cafe">>)>>,
            <<GenItem(VisitBalboaPark), GenItem(<<"Tower">>)>> >>)

\* two days within the bounds that share no venue
DocTwoDays ==
  GenDoc(<<>>,
         << <<GenItem(<<"Zoo">>), GenItem(<<"Pier">>), GenItem(<<"Museum">>)>>,
            <<GenItem(<<"Beach">>), GenItem(<<"Cafe">>), GenItem(<<"Market">>), GenItem(<<"Tower">>)>> >>)

\* an empty day, an item without description, brackets and an escaped quote
\* inside a title, and a day that repeats one venue
DocTricky ==
  GenDoc(<<>>,
         << <<>>,
            <<GenItem(<<"Pier", SP, "]", "[", Quote, "}">>),
              ObjVal(<< <<(<<"title">>), StrVal(<<"Zoo">>)>> >>),
              GenItem(<<"Zoo">>)>>,
            <<ObjVal(<< <<(<<"title">>), StrVal(<<"Cafe">>)>> >>)>>,
            <<GenItem(<<"Go", SP, "to", SP, "Zoo">>), GenItem(<<"ZOO">>), GenItem(<<"Tower">>)>> >>)

\* the generator stopped before it closed the day
TruncatedText == Slice(Stringify(DocBalboa), 0, Len(Stringify(DocBalboa)) - 3)

Scenarios ==
  << [nights |-> NoNights, text |-> Stringify(DocBalboa)],
     [nights |-> <<2>>, text |-> Stringify(DocOverfull)],
     [nights |-> NoNights, text |-> TruncatedText],
     [nights |-> <<2>>, text |-> Stringify(DocTwoDays)],
     [nights |-> NoNights, text |-> Stringify(DocTricky)] >>

Terminals ==
  [g \in 1..Len(Scenarios) |-> postChatStreamTerminal(Scenarios[g].text, Scenarios[g].nights)]

(***************************************************************************)
(* Content.tsx: the mutators of the drag engine.  Day and item indices are *)
(* 0-based as in the source.                                               *)
(***************************************************************************)
RemoveAt(day, i) == SubSeq(day, 1, i) \o SubSeq(day, i + 2, Len(day))
InsertAt(day, i, it) == SubSeq(day, 1, i) \o <<it>> \o SubSeq(day, i + 1, Len(day))

performReorder(prev, day, fromIndex, toIndex) ==
  IF day < 0 \/ day >= Len(prev) THEN prev
  ELSE IF fromIndex < 0 \/ fromIndex >= Len(prev[day + 1]) THEN prev
  ELSE LET moved == prev[day + 1][fromIndex + 1]
           rest == RemoveAt(prev[day + 1], fromIndex)
           clamped == Max(0, Min(toIndex, Len(rest)))
       IN [prev EXCEPT ![day + 1] = InsertAt(rest, clamped, moved)]

\* mutation: the item is inserted into the target day and left in the source day
performCrossDayCopy(prev, from, to, data) ==
  IF from.day < 0 \/ from.day >= Len(prev) \/ to.day < 0 \/ to.day >= Len(prev) THEN prev
  ELSE IF from.index < 0 \/ from.index >= Len(prev[from.day + 1]) THEN prev
  ELSE [prev EXCEPT ![to.day + 1] =
          InsertAt(@, Max(0, Min(to.index, Len(@))), prev[from.day + 1][from.index + 1])]

\* mutation: the item is put at the end of the target day, whatever the slot
performCrossDayAppend(prev, from, to, data) ==
  IF from.day < 0 \/ from.day >= Len(prev) \/ to.day < 0 \/ to.day >= Len(prev) THEN prev
  ELSE IF from.index < 0 \/ from.index >= Len(prev[from.day + 1]) THEN prev
  ELSE [prev EXCEPT ![from.day + 1] = RemoveAt(@, from.index),
                    ![to.day + 1] = Append(@, prev[from.day + 1][from.index + 1])]

performCrossDayMove(prev, from, to, data) ==
  IF from.day < 0 \/ from.day >= Len(prev) \/ to.day < 0 \/ to.day >= Len(prev) THEN prev
  ELSE IF from.index < 0 \/ from.index >= Len(prev[from.day + 1]) THEN prev
  ELSE LET moved == prev[from.day + 1][from.index + 1]
           src == RemoveAt(prev[from.day + 1], from.index)
           dst == prev[to.day + 1]
           insertIndex == Max(0, Min(to.index, Len(dst)))
       IN [prev EXCEPT ![from.day + 1] = src, ![to.day + 1] = InsertAt(dst, insertIndex, moved)]

\* mutation: the slot recorded while the pointer moved is used as it is
computeFinalTargetUnclamped(d, t, days) ==
  IF t = <<>> THEN [day |-> d.fromDay, index |-> d.fromIndex] ELSE t[1]

\* t = <<>> is the null drop target
computeFinalTarget(d, t, days) ==
  IF t = <<>> THEN [day |-> d.fromDay, index |-> d.fromIndex]
  ELSE LET maxDay == Max(0, Len(days) - 1)
           day == Max(0, Min(t[1].day, maxDay))
           maxIndex == IF day < Len(days) THEN Len(days[day + 1]) ELSE 0
       IN [day |-> day, index |-> Max(0, Min(t[1].index, maxIndex))]

(***************************************************************************)
(* Chat.tsx: the jsonFinal handler's reading of the parsed payload.        *)
(* ok = FALSE is the TypeError that the handler's catch swallows.          *)
(***************************************************************************)
FinalDays(parsed) ==
  LET f == Field(parsed, "planDays") IN
  IF parsed.t = "lit" /\ parsed.v = <<"null">> THEN [ok |-> FALSE, v |-> <<>>]
  ELSE IF f = <<>> \/ ~Truthy(f[1]) THEN [ok |-> TRUE, v |-> <<>>]
  ELSE IF f[1].t # "arr" THEN [ok |-> FALSE, v |-> <<>>]
  ELSE IF \E d \in 1..Len(f[1].v) : f[1].v[d].t \in {"lit", "obj"} THEN [ok |-> FALSE, v |-> <<>>]
  ELSE [ok |-> TRUE,
        v |-> [d \in 1..Len(f[1].v) |->
                 IF f[1].v[d].t = "str" THEN <<>>
                 ELSE LET strict == SelectSeq(f[1].v[d].v, isStrictItem)
                      IN [i \in 1..Len(strict) |-> ToItem(strict[i])]]]

(***************************************************************************)
(* Chat.tsx: parseSSEStream.  "data:", "event:" and "[DONE]" are one token *)
(* each; a frame is [event, data].                                         *)
(***************************************************************************)
\* the first index at or after 1 where n consecutive newlines start, 0 when none
FirstSeparator(s, n) ==
  Let({i \in 1..(Len(s) - n + 1) : \A k \in 0..(n - 1) : s[i + k] = NL}, LAMBDA idx :
    IF idx = {} THEN 0 ELSE CHOOSE i \in idx : \A j \in idx : i <= j)

\* String.prototype.split on a separator of n newlines
RECURSIVE Split(_, _)
Split(s, n) ==
  Let(FirstSeparator(s, n), LAMBDA i :
    IF i = 0 THEN <<s>> ELSE <<SubSeq(s, 1, i - 1)>> \o Split(SubSeq(s, i + n, Len(s)), n))

\* if (v.startsWith(' ')) v = v.slice(1)
StripLeadingSpace(v) == IF v # <<>> /\ v[1] = SP THEN Tail(v) ELSE v

\* v.replace(/\r$/, '')
StripTrailingCR(v) == IF v # <<>> /\ v[Len(v)] = CR THEN SubSeq(v, 1, Len(v) - 1) ELSE v

\* one round of the loop over the lines of a frame
FrameLine(acc, raw) ==
  IF raw # <<>> /\ raw[1] = "event:"
  THEN [acc EXCEPT !.event = StripTrailingCR(StripLeadingSpace(Tail(raw)))]
  ELSE IF raw # <<>> /\ raw[1] = "data:"
  THEN [acc EXCEPT !.data = @ \o (IF @ # <<>> THEN <<NL>> ELSE <<>>)
                              \o StripTrailingCR(StripLeadingSpace(Tail(raw)))]
  ELSE acc

RECURSIVE FrameLines(_, _)
FrameLines(acc, lines) ==
  IF lines = <<>> THEN acc ELSE FrameLines(FrameLine(acc, Head(lines)), Tail(lines))

FrameOf(frame) == FrameLines([event |-> <<"message">>, data |-> <<>>], Split(frame, 1))

\* mutation: the incomplete last frame is not kept for the next chunk
FeedFramesNoResidual(frames) ==
  [buffer |-> <<>>,
   events |-> SelectSeq([i \in 1..(Len(frames) - 1) |-> FrameOf(frames[i])],
                        LAMBDA e : e.data # <<"[DONE]">>)]

\* the frames handed to onEvent for the complete frames, and the new buffer
FeedFrames(frames) ==
  [buffer |-> frames[Len(frames)],
   events |-> SelectSeq([i \in 1..(Len(frames) - 1) |-> FrameOf(frames[i])],
                        LAMBDA e : e.data # <<"[DONE]">>)]

\* mutation: the final flush, an empty chunk, hands on the residual as a frame
parseSSEStreamFlushing(buffer, chunk) ==
  IF chunk = <<>> /\ buffer # <<>>
  THEN [buffer |-> <<>>, events |-> <<FrameOf(buffer)>>]
  ELSE FeedFrames(Split(buffer \o chunk, 2))

\* the closure parseSSEStream returns, applied to one chunk
parseSSEStream(buffer, chunk) == FeedFrames(Split(buffer \o chunk, 2))

(***************************************************************************)
(* State                                                                   *)
(***************************************************************************)
VARIABLES
  planDays,     \* the PlanDocument (React state shared by Chat and Content)
  jsonBuffer,   \* jsonBufferRef
  finalized,    \* finalizedRef
  loading,      \* loading: a stream is being read
  errorText,    \* errorText: <<>> is null
  drag,         \* Content: drag state, <<>> is null
  dropTarget,   \* Content: dropTarget, <<>> is null
  view,         \* Content: "Map" or "Calendar"
  gen,          \* the scenario of the current turn (0 before the first turn)
  sent,         \* tokens of the generator's text already delivered as jsonDelta
  terminal,     \* the terminal frame delivered in this turn: "none", "jsonFinal", "error"
  turns,        \* planning turns started
  drags,        \* pointer-downs accepted
  patches,      \* planImage frames delivered
  lastEvent,    \* the Chat handler that ran last
  sseText,      \* decoder: the text the transport carries
  ssePos,       \* decoder: tokens of sseText already fed
  sseBuffer,    \* decoder: parseSSEStream's residual buffer
  delivered,    \* decoder: the frames handed to onEvent, in order
  written,      \* wire: the (event, payload) pairs the server passed to sseEvent, in order
  request,      \* server: <<>> or the generator's parsed document and the nights of the request
  clamped,      \* server: <<>> or the outcome of the final clamp for the request
  server,       \* postChatStream: "idle", "streaming" after sseHeaders, "closed" after res.end()
  jsonBuf,      \* postChatStream: jsonBuf, the generator's text so far
  pointer,      \* the pointer of the user: "up" or "down"
  arg,          \* the argument of a call of a normalizer, <<>> before any
  result        \* <<>> or the value the call returned

clientVars == <<planDays, jsonBuffer, finalized, loading, errorText, gen, sent, terminal, turns, patches>>
dragVars == <<drag, dropTarget, view, drags, pointer>>
sseVars == <<sseText, ssePos, sseBuffer, delivered, written>>
serverVars == <<request, clamped, server, jsonBuf>>
callVars == <<arg, result>>
vars == <<clientVars, dragVars, sseVars, serverVars, callVars, lastEvent>>

MaxTurns == 2
MaxDrags == 1
MaxPatches == 1
ChunkLen == 40

\* the state after the components are constructed
InitClient ==
  /\ planDays = <<>>
  /\ jsonBuffer = <<>>
  /\ finalized = FALSE
  /\ loading = FALSE
  /\ errorText = <<>>
  /\ drag = <<>>
  /\ dropTarget = <<>>
  /\ view = "Map"
  /\ pointer = "up"
  /\ gen = 0
  /\ sent = 0
  /\ terminal = "none"
  /\ turns = 0
  /\ drags = 0
  /\ patches = 0
  /\ lastEvent = "init"
  /\ clamped = <<>>
  /\ server = "idle"
  /\ jsonBuf = <<>>
  /\ result = <<>>

Init ==
  /\ InitClient
  /\ request = <<>>
  /\ arg = <<>>
  /\ sseText = <<>>
  /\ ssePos = 0
  /\ sseBuffer = <<>>
  /\ delivered = <<>>
  /\ written = <<>>

(***************************************************************************)
(* Chat.tsx: handleSubmit and the frame handlers                           *)
(***************************************************************************)
\* mutation: a new turn leaves the finalize latch as the last turn set it
SubmitKeepLatch(g) ==
  /\ turns < MaxTurns
  /\ errorText' = <<>>
  /\ IF loading
     THEN UNCHANGED <<planDays, jsonBuffer, finalized, loading, gen, sent, terminal, turns, lastEvent>>
     ELSE /\ jsonBuffer' = <<>>
          /\ finalized' = finalized
          /\ planDays' = <<>>
          /\ loading' = TRUE
          /\ gen' = g
          /\ sent' = 0
          /\ terminal' = "none"
          /\ turns' = turns + 1
          /\ lastEvent' = "submit"
  /\ UNCHANGED <<patches, dragVars, sseVars, serverVars, callVars>>

\* mutation: no test of loading, every submit starts a turn
SubmitUnguarded(g) ==
  /\ turns < MaxTurns
  /\ errorText' = <<>>
  /\ jsonBuffer' = <<>>
  /\ finalized' = FALSE
  /\ planDays' = <<>>
  /\ loading' = TRUE
  /\ gen' = g
  /\ sent' = 0
  /\ terminal' = "none"
  /\ turns' = turns + 1
  /\ lastEvent' = "submit"
  /\ UNCHANGED <<patches, dragVars, sseVars, serverVars, callVars>>

\* handleSubmit up to the fetch: a submit while loading only clears the error
Submit(g) ==
  /\ turns < MaxTurns
  /\ errorText' = <<>>
  /\ IF loading
     THEN UNCHANGED <<planDays, jsonBuffer, finalized, loading, gen, sent, terminal, turns, lastEvent>>
     ELSE /\ jsonBuffer' = <<>>
          /\ finalized' = FALSE
          /\ planDays' = <<>>
          /\ loading' = TRUE
          /\ gen' = g
          /\ sent' = 0
          /\ terminal' = "none"
          /\ turns' = turns + 1
          /\ lastEvent' = "submit"
  /\ UNCHANGED <<patches, dragVars, sseVars, serverVars, callVars>>

\* mutation: the extractor sees the chunk alone, not the accumulated buffer
HandleJsonDeltaChunkOnly(data) ==
  /\ IF finalized
     THEN UNCHANGED <<jsonBuffer, planDays>>
     ELSE /\ jsonBuffer' = data
          /\ planDays' = Let(extractCompletedActivities(data), LAMBDA progress :
                            IF Len(progress) > 0 THEN mergePlanProgress(planDays, progress)
                            ELSE planDays)
  /\ lastEvent' = "jsonDelta"

\* mutation: no finalizedRef guard
HandleJsonDeltaUnguarded(data) ==
  /\ jsonBuffer' = jsonBuffer \o data
  /\ planDays' = Let(extractCompletedActivities(jsonBuffer \o data), LAMBDA progress :
                    IF Len(progress) > 0 THEN mergePlanProgress(planDays, progress)
                    ELSE planDays)
  /\ lastEvent' = "jsonDelta"

\* case 'jsonDelta' behind the finalizedRef guard
HandleJsonDelta(data) ==
  /\ IF finalized
     THEN UNCHANGED <<jsonBuffer, planDays>>
     ELSE /\ jsonBuffer' = jsonBuffer \o data
          /\ planDays' = Let(extractCompletedActivities(jsonBuffer \o data), LAMBDA progress :
                            IF Len(progress) > 0 THEN mergePlanProgress(planDays, progress)
                            ELSE planDays)
  /\ lastEvent' = "jsonDelta"

\* the next k tokens of the generator's text arrive as one jsonDelta frame
JsonDelta(k) ==
  /\ loading
  /\ sent < Len(Scenarios[gen].text)
  /\ sent' = Min(sent + k, Len(Scenarios[gen].text))
  /\ HandleJsonDelta(SubSeq(Scenarios[gen].text, sent + 1, Min(sent + k, Len(Scenarios[gen].text))))
  /\ UNCHANGED <<finalized, loading, errorText, gen, terminal, turns, patches, dragVars, sseVars, serverVars, callVars>>

\* mutation: the final days are merged into the document instead of replacing it
ApplyFinalMerge(days) ==
  planDays' = IF days.ok THEN mergePlanProgress(planDays, sanitizePlanDays(days.v)) ELSE planDays

\* setPlanDays(sanitizePlanDays(parsed.planDays || [])) inside the try
ApplyFinal(days) ==
  planDays' = IF days.ok THEN sanitizePlanDays(days.v) ELSE planDays

\* case 'jsonFinal' with JSON.parse(data)
HandleParsedFinal(parsed) ==
  /\ finalized' = (finalized \/ parsed.ok)
  /\ IF parsed.ok THEN ApplyFinal(FinalDays(parsed.val)) ELSE UNCHANGED planDays
  /\ jsonBuffer' = <<>>
  /\ lastEvent' = "jsonFinal"

HandleJsonFinal(data) == HandleParsedFinal(JSONparse(data))

\* case 'error'
HandleError(data) ==
  /\ errorText' = <<data>>
  /\ lastEvent' = "error"
  /\ UNCHANGED <<planDays, jsonBuffer, finalized>>

\* the terminal frame of the turn arrives; the handler is modelled for every
\* order in which frames can reach it (its guard expects stray deltas after the final)
TerminalFrame(frame) ==
  /\ loading
  /\ terminal = "none"
  /\ terminal' = frame.event
  /\ IF frame.event = "jsonFinal"
     THEN HandleJsonFinal(frame.data) /\ UNCHANGED errorText
     ELSE HandleError(frame.data)
  /\ UNCHANGED <<loading, gen, sent, turns, patches, dragVars, sseVars, serverVars, callVars>>

\* mutation: the image is set on every item of the day
PlanImageDay(dayIdx, itemIdx, image_url) ==
  /\ loading
  /\ patches < MaxPatches
  /\ patches' = patches + 1
  /\ planDays' =
       IF ~finalized /\ dayIdx < Len(planDays) /\ itemIdx < Len(planDays[dayIdx + 1])
       THEN [planDays EXCEPT ![dayIdx + 1] =
               [i \in 1..Len(planDays[dayIdx + 1]) |-> [planDays[dayIdx + 1][i] EXCEPT !.image_url = <<image_url>>]]]
       ELSE planDays
  /\ lastEvent' = "planImage"
  /\ UNCHANGED <<jsonBuffer, finalized, loading, errorText, gen, sent, terminal, turns, dragVars, sseVars, serverVars, callVars>>

\* case 'planImage' with { dayIdx, itemIdx, image_url }
PlanImage(dayIdx, itemIdx, image_url) ==
  /\ loading
  /\ patches < MaxPatches
  /\ patches' = patches + 1
  /\ planDays' =
       IF ~finalized /\ dayIdx < Len(planDays) /\ itemIdx < Len(planDays[dayIdx + 1])
       THEN [planDays EXCEPT ![dayIdx + 1][itemIdx + 1].image_url = <<image_url>>]
       ELSE planDays
  /\ lastEvent' = "planImage"
  /\ UNCHANGED <<jsonBuffer, finalized, loading, errorText, gen, sent, terminal, turns, dragVars, sseVars, serverVars, callVars>>

\* the read loop sees done after the server closed the stream: finally { setLoading(false) }
StreamEnd ==
  /\ loading
  /\ terminal # "none"
  /\ loading' = FALSE
  /\ UNCHANGED <<planDays, jsonBuffer, finalized, errorText, gen, sent, terminal, turns, patches,
                 lastEvent, dragVars, sseVars, serverVars, callVars>>

(***************************************************************************)
(* Content.tsx: view switch and the pointer handlers                       *)
(***************************************************************************)
switchToCalendar ==
  /\ view = "Map"
  /\ view' = "Calendar"
  /\ UNCHANGED <<clientVars, lastEvent, drag, dropTarget, drags, pointer, sseVars, serverVars, callVars>>

switchToMap ==
  /\ view = "Calendar"
  /\ view' = "Map"
  /\ UNCHANGED <<clientVars, lastEvent, drag, dropTarget, drags, pointer, sseVars, serverVars, callVars>>

onPointerDownItem(realDayIdx, itemIdx) ==
  /\ view = "Calendar"
  /\ drags < MaxDrags
  /\ realDayIdx < Len(planDays)
  /\ itemIdx < Len(planDays[realDayIdx + 1])
  /\ drag' = <<[fromDay |-> realDayIdx, fromIndex |-> itemIdx,
                data |-> planDays[realDayIdx + 1][itemIdx + 1]]>>
  /\ drags' = drags + 1
  /\ pointer' = "down"
  /\ UNCHANGED <<clientVars, lastEvent, dropTarget, view, sseVars, serverVars, callVars>>

\* the drop slots rendered for the document: slot (d, i) for every i in 0..length of day d
Slots(days) ==
  UNION {{[day |-> d - 1, index |-> i] : i \in 0..Len(days[d])} : d \in 1..Len(days)}

\* onPointerMove / updateDropTargetFromPointer: the pointer is nearest to slot t
onPointerMove(t) ==
  /\ drag # <<>>
  /\ t \in Slots(planDays)
  /\ dropTarget' = <<t>>
  /\ UNCHANGED <<clientVars, lastEvent, drag, view, drags, pointer, sseVars, serverVars, callVars>>

\* onPointerUp -> onGlobalPointerUp
onPointerUp ==
  /\ drag # <<>>
  /\ LET finalTarget == computeFinalTarget(drag[1], dropTarget, planDays)
     IN planDays' =
          IF finalTarget.day # drag[1].fromDay
          THEN performCrossDayMove(planDays, [day |-> drag[1].fromDay, index |-> drag[1].fromIndex],
                                   finalTarget, drag[1].data)
          ELSE performReorder(planDays, drag[1].fromDay, drag[1].fromIndex, finalTarget.index)
  /\ drag' = <<>>
  /\ dropTarget' = <<>>
  /\ pointer' = "up"
  /\ UNCHANGED <<jsonBuffer, finalized, loading, errorText, gen, sent, terminal, turns, patches,
                 lastEvent, view, drags, sseVars, serverVars, callVars>>

\* the wrapper that captured the pointer is rendered: Calendar view and an item at
\* the position the drag started from
OriginMounted ==
  /\ view = "Calendar"
  /\ drag[1].fromDay < Len(planDays)
  /\ drag[1].fromIndex < Len(planDays[drag[1].fromDay + 1])

\* the pointer goes up outside the content area after the capturing wrapper was
\* unmounted: only the window listener of the pointer-down runs, and it calls the
\* onGlobalPointerUp of the render of the pointer-down, whose drag is null
handleWinUp ==
  /\ pointer = "down"
  /\ drag # <<>>
  /\ ~OriginMounted
  /\ pointer' = "up"
  /\ UNCHANGED <<clientVars, lastEvent, drag, dropTarget, view, drags, sseVars, serverVars, callVars>>

\* the pointer goes down on a displayed item; a pointer that is down does not go down again
PointerDown ==
  /\ pointer = "up"
  /\ \E d \in 0..(Len(planDays) - 1) : \E i \in 0..(Len(planDays[d + 1]) - 1) : onPointerDownItem(d, i)

\* the turns of the interactive model: the end-to-end scenario, the plan the server
\* discards, and a generator that stops early
MainScenarios == 1..3

Next ==
  \/ \E g \in MainScenarios : Submit(g)
  \/ JsonDelta(ChunkLen)
  \/ TerminalFrame(Terminals[gen])
  \/ \E d \in 0..1, i \in 0..1 : PlanImage(d, i, "img")
  \/ StreamEnd
  \/ switchToCalendar
  \/ switchToMap
  \/ PointerDown
  \/ \E t \in Slots(planDays) : onPointerMove(t)
  \/ onPointerUp

Spec == Init /\ [][Next]_vars

\* the chunk that ends where the second day of the two-day plan closes: the
\* text still to come is the end of planDays and of the document
LastDayClosed == Len(Scenarios[2].text) - 2

\* drags while the text of a two-day plan arrives, one of the chunks ending
\* with the second day
NextRemerge ==
  \/ Submit(2)
  \/ \E k \in {ChunkLen, LastDayClosed} : JsonDelta(k)
  \/ TerminalFrame(Terminals[gen])
  \/ StreamEnd
  \/ switchToCalendar
  \/ switchToMap
  \/ PointerDown
  \/ \E t \in Slots(planDays) : onPointerMove(t)
  \/ onPointerUp

SpecRemerge == Init /\ [][NextRemerge]_vars

\* the drag session with every way the pointer can go up
NextPointer ==
  \/ \E g \in MainScenarios : Submit(g)
  \/ JsonDelta(ChunkLen)
  \/ TerminalFrame(Terminals[gen])
  \/ StreamEnd
  \/ switchToCalendar
  \/ switchToMap
  \/ PointerDown
  \/ \E t \in Slots(planDays) : onPointerMove(t)
  \/ onPointerUp
  \/ handleWinUp

SpecPointer == Init /\ [][NextPointer]_vars

(***************************************************************************)
(* Streaming alone: the generator's text cut into chunks of any size up to *)
(* MaxChunk, every scenario, no user interaction.                          *)
(***************************************************************************)
MaxChunk == 2

\* the sizes a chunk can have: small ones, the interactive model's, the whole text
LongestText == CHOOSE n \in {Len(Scenarios[g].text) : g \in 1..Len(Scenarios)} :
                 \A g \in 1..Len(Scenarios) : Len(Scenarios[g].text) <= n

ChunkSizes == (1..MaxChunk) \cup {ChunkLen, LongestText}

NextStream ==
  \/ \E g \in 1..Len(Scenarios) : Submit(g)
  \/ \E k \in ChunkSizes : JsonDelta(k)
  \/ TerminalFrame(Terminals[gen])
  \/ StreamEnd

SpecStream == Init /\ [][NextStream]_vars

(***************************************************************************)
(* The frame decoder alone: the read loop of handleSubmit feeds the text   *)
(* of the transport to parseSSEStream in chunks of any size, then flushes. *)
(***************************************************************************)
MaxSseLen == 5

SseAlphabet == {"data:", "event:", NL, CR, SP, "x", "[DONE]"}

SseTexts == UNION {[1..n -> SseAlphabet] : n \in 0..MaxSseLen}

InitDecoder ==
  /\ InitClient
  /\ request = <<>>
  /\ arg = <<>>
  /\ sseText \in SseTexts
  /\ ssePos = 0
  /\ sseBuffer = <<>>
  /\ delivered = <<>>
  /\ written = <<>>

\* onEvent for every complete frame, the residual kept
Fed(r) ==
  /\ sseBuffer' = r.buffer
  /\ delivered' = delivered \o r.events

\* feed(chunk) with the next k tokens
Feed(k) ==
  /\ ssePos < Len(sseText)
  /\ ssePos' = Min(ssePos + k, Len(sseText))
  /\ Fed(parseSSEStream(sseBuffer, SubSeq(sseText, ssePos + 1, Min(ssePos + k, Len(sseText)))))
  /\ UNCHANGED <<sseText, written, clientVars, dragVars, serverVars, callVars, lastEvent>>

\* feed(decoder.decode()) after the reader is done
Flush ==
  /\ ssePos = Len(sseText)
  /\ Fed(parseSSEStream(sseBuffer, <<>>))
  /\ UNCHANGED <<sseText, ssePos, written, clientVars, dragVars, serverVars, callVars, lastEvent>>

NextDecoder ==
  \/ \E k \in 1..MaxSseLen : Feed(k)
  \/ Flush

SpecDecoder == InitDecoder /\ [][NextDecoder]_vars

(***************************************************************************)
(* The wire: the server writes frames with sseEvent, the client's read     *)
(* loop feeds what arrived to parseSSEStream.                              *)
(***************************************************************************)
MaxFrames == 2
MaxPayloadLen == 2

\* chat.js sseEvent with a string payload: res.write(`event: ${event}\n`) and
\* res.write(`data: ${payload}\n\n`)
sseEvent(event, payload) == <<"event:", SP, event, NL, "data:", SP>> \o payload \o <<NL, NL>>

WireEvents == {"jsonDelta", "error"}

PayloadAlphabet == {SP, NL, CR, "x"}

Payloads == UNION {[1..n -> PayloadAlphabet] : n \in 0..MaxPayloadLen}

\* the server calls sseEvent(res, event, payload)
WriteFrame(event, payload) ==
  /\ Len(written) < MaxFrames
  /\ written' = Append(written, [event |-> <<event>>, data |-> payload])
  /\ sseText' = sseText \o sseEvent(event, payload)
  /\ UNCHANGED <<ssePos, sseBuffer, delivered, clientVars, dragVars, serverVars, callVars, lastEvent>>

NextWire ==
  \/ \E e \in WireEvents, p \in Payloads : WriteFrame(e, p)
  \/ \E k \in 1..MaxSseLen : Feed(k)
  \/ Flush

SpecWire == Init /\ [][NextWire]_vars

(***************************************************************************)
(* The server's final step alone: postChatStream has the generator's whole *)
(* document and clamps its plan.                                           *)
(***************************************************************************)
MaxSuggestions == 3

ExploreBalboaPark == <<"Explore", SP, "Balboa", SP, "Park">>

ClampTitles == {BalboaPark, VisitBalboaPark, ExploreBalboaPark, <<"Zoo">>}

\* days the schema admits (three items), and an empty, a short and an over-full day
ClampDays ==
  {[i \in 1..3 |-> GenItem(t[i])] : t \in [1..3 -> ClampTitles]}
    \cup {<<>>,
          <<GenItem(BalboaPark), GenItem(<<"Zoo">>)>>,
          <<GenItem(BalboaPark), GenItem(<<"Zoo">>), GenItem(<<"Pier">>), GenItem(<<"Museum">>),
            GenItem(<<"Beach">>), GenItem(<<"Cafe">>)>>}

SecondDays ==
  {<<GenItem(<<"Zoo">>), GenItem(<<"Pier">>), GenItem(<<"Museum">>)>>,
   <<GenItem(BalboaPark), GenItem(VisitBalboaPark), GenItem(<<"Zoo">>)>>}

ClampPlans == {<<>>} \cup {<<d>> : d \in ClampDays} \cup {<<d, e>> : d \in ClampDays, e \in SecondDays}

SuggestionNames == {"Zoo", "Cafe", "Tower"}

SuggestionLists ==
  UNION {[1..n -> {GenSuggestion(x) : x \in SuggestionNames}] : n \in 0..MaxSuggestions}
    \cup {<<GenSuggestion("Pier"), GenSuggestion("Museum"), GenSuggestion("Beach"), GenSuggestion("Cafe")>>}

NightsValues == {NoNights, <<1>>, <<2>>}

Requests ==
  {<<[doc |-> GenDoc(sg, pl), nights |-> n]>> : sg \in SuggestionLists, pl \in ClampPlans, n \in NightsValues}

InitClamp ==
  /\ InitClient
  /\ request \in Requests
  /\ arg = <<>>
  /\ sseText = <<>>
  /\ ssePos = 0
  /\ sseBuffer = <<>>
  /\ delivered = <<>>
  /\ written = <<>>

\* the try block of postChatStream after JSON.parse(jsonBuf); ok = FALSE is its catch
Clamp ==
  /\ request # <<>>
  /\ clamped = <<>>
  /\ clamped' = <<EnforcedOf(request[1].doc, SuggestionsOf(request[1].doc), request[1].nights)>>
  /\ UNCHANGED <<request, server, jsonBuf, clientVars, dragVars, sseVars, lastEvent, callVars>>

NextClamp == Clamp

SpecClamp == InitClamp /\ [][NextClamp]_vars

(***************************************************************************)
(* The client on a stream that goes wrong: the jsonFinal handler receives  *)
(* whatever payload the frame carries, and reader.read() can reject at     *)
(* every await of the read loop.                                           *)
(***************************************************************************)
LitVal(w) == [t |-> "lit", v |-> <<w>>]

FinalOf(members) == Stringify(ObjVal(<< <<(<<"replyText">>), StrVal(<<"Hi">>)>> >> \o members))

\* payloads of a jsonFinal frame: text that is no JSON, null, an object without
\* planDays, planDays that is a string, null or an object, days that are a string
\* or null, and a well-formed final of one day
FinalPayloads ==
  { <<"{">>,
    Stringify(LitVal("null")),
    FinalOf(<<>>),
    FinalOf(<< <<(<<"planDays">>), StrVal(<<"x">>)>> >>),
    FinalOf(<< <<(<<"planDays">>), LitVal("null")>> >>),
    FinalOf(<< <<(<<"planDays">>), ObjVal(<<>>)>> >>),
    FinalOf(<< <<(<<"planDays">>), ArrVal(<<StrVal(<<"x">>)>>)>> >>),
    FinalOf(<< <<(<<"planDays">>), ArrVal(<<LitVal("null")>>)>> >>),
    FinalOf(<< <<(<<"planDays">>),
                 ArrVal(<<ArrVal(<<GenItem(<<"Tower">>), GenItem(<<"Lake">>), GenItem(<<"Harbor">>)>>)>>)>> >>) }

FinalFrame(data) == TerminalFrame([event |-> "jsonFinal", data |-> data])

\* mutation: a failed read empties the document
StreamFailRollback(message) ==
  /\ loading
  /\ planDays' = <<>>
  /\ errorText' = <<message>>
  /\ loading' = FALSE
  /\ terminal' = "failed"
  /\ UNCHANGED <<jsonBuffer, finalized, gen, sent, turns, patches, lastEvent,
                 dragVars, sseVars, serverVars, callVars>>

\* await reader.read() rejects: catch { setErrorText(message) } finally { setLoading(false) }
StreamFail(message) ==
  /\ loading
  /\ errorText' = <<message>>
  /\ loading' = FALSE
  /\ terminal' = "failed"
  /\ UNCHANGED <<planDays, jsonBuffer, finalized, gen, sent, turns, patches, lastEvent,
                 dragVars, sseVars, serverVars, callVars>>

NextFaults ==
  \/ \E g \in MainScenarios : Submit(g)
  \/ JsonDelta(ChunkLen)
  \/ TerminalFrame(Terminals[gen])
  \/ \E data \in FinalPayloads : FinalFrame(data)
  \/ StreamFail(<<"Network error">>)
  \/ StreamEnd

SpecFaults == Init /\ [][NextFaults]_vars

(***************************************************************************)
(* server chat.js: postChatStream as the writer of one response.  written  *)
(* holds the frames passed to res.write, in order.                         *)
(***************************************************************************)
MaxPings == 1

Frame(event, data) == [event |-> <<event>>, data |-> data]

EndFrame == Frame("end", <<"ok">>)

Pings == Cardinality({i \in 1..Len(written) : written[i].event = <<"ping">>})

\* the request passed the 400 test: sseHeaders(res) and the ping timer
Accept(g) ==
  /\ server = "idle"
  /\ server' = "streaming"
  /\ request' = <<Scenarios[g]>>
  /\ jsonBuf' = <<>>
  /\ written' = <<>>
  /\ UNCHANGED <<clamped, sseText, ssePos, sseBuffer, delivered, clientVars, dragVars, lastEvent, callVars>>

\* one round of for await (const part of jsonStream) with a non-empty delta
Delta(k) ==
  /\ server = "streaming"
  /\ Len(jsonBuf) < Len(request[1].text)
  /\ LET delta == SubSeq(request[1].text, Len(jsonBuf) + 1, Min(Len(jsonBuf) + k, Len(request[1].text)))
     IN /\ jsonBuf' = jsonBuf \o delta
        /\ written' = Append(written, Frame("jsonDelta", delta))
  /\ UNCHANGED <<request, server, clamped, sseText, ssePos, sseBuffer, delivered, clientVars, dragVars,
                 lastEvent, callVars>>

\* the interval timer fires while the response is open
Ping ==
  /\ server = "streaming"
  /\ Pings < MaxPings
  /\ written' = Append(written, Frame("ping", <<"t">>))
  /\ UNCHANGED <<request, server, jsonBuf, clamped, sseText, ssePos, sseBuffer, delivered, clientVars,
                 dragVars, lastEvent, callVars>>

\* mutation: the error frame is written after the final one
FinishBoth ==
  /\ server = "streaming"
  /\ jsonBuf = request[1].text
  /\ written' = written \o <<Frame("jsonFinal", jsonBuf), Frame("error", <<"Invalid">>), EndFrame>>
  /\ server' = "closed"
  /\ UNCHANGED <<request, jsonBuf, clamped, sseText, ssePos, sseBuffer, delivered, clientVars, dragVars,
                 lastEvent, callVars>>

\* the generator's stream is done: the inner try writes jsonFinal, its catch
\* writes error; then sseClose
Finish ==
  /\ server = "streaming"
  /\ jsonBuf = request[1].text
  /\ LET t == postChatStreamTerminal(jsonBuf, request[1].nights)
     IN written' = written \o <<Frame(t.event, t.data), EndFrame>>
  /\ server' = "closed"
  /\ UNCHANGED <<request, jsonBuf, clamped, sseText, ssePos, sseBuffer, delivered, clientVars, dragVars,
                 lastEvent, callVars>>

\* openai.chat.completions.create or the iteration throws: the outer catch
\* writes error with the message; then sseClose
GeneratorThrows(message) ==
  /\ server = "streaming"
  /\ written' = written \o <<Frame("error", message), EndFrame>>
  /\ server' = "closed"
  /\ UNCHANGED <<request, jsonBuf, clamped, sseText, ssePos, sseBuffer, delivered, clientVars, dragVars,
                 lastEvent, callVars>>

NextServer ==
  \/ \E g \in 1..Len(Scenarios) : Accept(g)
  \/ \E k \in {ChunkLen, 2 * ChunkLen} : Delta(k)
  \/ Ping
  \/ Finish
  \/ GeneratorThrows(<<"server", SP, "error">>)

SpecServer == Init /\ [][NextServer]_vars

(***************************************************************************)
(* server chat.js: coerceCost applied to one cost text.                    *)
(***************************************************************************)
MaxCostLen == 3

CostAlphabet == {"$", "0", "05", "10", "25", SP, "to", "-", EnDash, "~", ".", "Free", "free", "entry", "usd"}

\* absent, every text of at most MaxCostLen tokens, and the texts "$25 to $40",
\* "Free entry", "$10-25 usd" and "$$$$"
CostInputs ==
  {<<>>}
    \cup {<<t>> : t \in UNION {[1..n -> CostAlphabet] : n \in 0..MaxCostLen}}
    \cup {<<(<<"$", "25", SP, "to", SP, "$", "40">>)>>, <<(<<"Free", SP, "entry">>)>>,
          <<(<<"$", "10", "-", "25", SP, "usd">>)>>, <<(<<"$", "$", "$", "$">>)>>}

InitCost ==
  /\ InitClient
  /\ request = <<>>
  /\ arg \in {[fn |-> "coerceCost", input |-> c] : c \in CostInputs}
  /\ sseText = <<>>
  /\ ssePos = 0
  /\ sseBuffer = <<>>
  /\ delivered = <<>>
  /\ written = <<>>

CallCoerceCost ==
  /\ arg # <<>>
  /\ arg.fn = "coerceCost"
  /\ result = <<>>
  /\ result' = <<coerceCost(arg.input)>>
  /\ UNCHANGED <<arg, clientVars, dragVars, sseVars, serverVars, lastEvent>>

NextCost == CallCoerceCost

SpecCost == InitCost /\ [][NextCost]_vars

(***************************************************************************)
(* normalizeTitleKey (Chat.tsx and chat.js, the same text) applied to a    *)
(* title and to the title behind a generic verb.                           *)
(***************************************************************************)
MaxTitleLen == 3

TitleAlphabet == {"Balboa", "Park", "Walk", "of", "Fame", "zoo", SP, "&", "-"}

TitleInputs ==
  UNION {[1..n -> TitleAlphabet] : n \in 0..MaxTitleLen}
    \cup {<<"Walk", SP, "of", SP, "Fame">>, BalboaPark}

\* the generic verbs as a title can spell them
VerbSpellings ==
  { <<"visit">>, <<"Visit">>, <<"VISIT">>, <<"explore">>, <<"Explore">>, <<"walk">>, <<"Walk">>,
    <<"WALK">>, <<"tour">>, <<"Tour">>, <<"see">>, <<"See">>, <<"go", SP, "to">>, <<"Go", SP, "To">>,
    <<"discover">>, <<"Discover">> }

InitKey ==
  /\ InitClient
  /\ request = <<>>
  /\ arg \in {[fn |-> "normalizeTitleKey", verb |-> p, title |-> v] : p \in VerbSpellings, v \in TitleInputs}
  /\ sseText = <<>>
  /\ ssePos = 0
  /\ sseBuffer = <<>>
  /\ delivered = <<>>
  /\ written = <<>>

\* the key of the title behind the verb and a space, and the key of the title
CallNormalizeTitleKey ==
  /\ arg # <<>>
  /\ arg.fn = "normalizeTitleKey"
  /\ result = <<>>
  /\ result' = <<[prefixed |-> normalizeTitleKey(arg.verb \o <<SP>> \o arg.title),
                  plain |-> normalizeTitleKey(arg.title)]>>
  /\ UNCHANGED <<arg, clientVars, dragVars, sseVars, serverVars, lastEvent>>

NextKey == CallNormalizeTitleKey

SpecKey == InitKey /\ [][NextKey]_vars

(***************************************************************************)
(* Reference values, computed from the documents themselves and not by the *)
(* scanner or the merge.                                                   *)
(***************************************************************************)
Item(title) == MkItem(title, <<"w">>)

\* the elements of a finite set of numbers in increasing order
Ascending(S) == [k \in 1..Cardinality(S) |-> CHOOSE i \in S : Cardinality({j \in S : j < i}) = k - 1]

FirstOccurrences(keys) == {i \in 1..Len(keys) : \A j \in 1..(i - 1) : keys[j] # keys[i]}

TakeAt(day, idx, cap) == [k \in 1..Min(cap, Len(idx)) |-> day[idx[k]]]

\* the first occurrence of every DedupKey of day, in order, at most cap of them
UniqueCapped(day, cap) ==
  TakeAt(day, Ascending(FirstOccurrences([i \in 1..Len(day) |-> normalizeTitleKey(day[i].title)])), cap)

\* the valid items of the days of a generated document
ValidDays(doc) ==
  Let(Field(doc, "planDays")[1].v, LAMBDA days :
    [d \in 1..Len(days) |->
       Let(SelectSeq(days[d].v, isStrictItem), LAMBDA strict :
         [i \in 1..Len(strict) |-> ToItem(strict[i])])])

NonEmptyDays(days) == SelectSeq(days, LAMBDA d : d # <<>>)

DedupedDays(days, cap) == [d \in 1..Len(days) |-> UniqueCapped(days[d], cap)]

Docs == <<DocBalboa, DocOverfull, DocBalboa, DocTwoDays, DocTricky>>

\* the turns whose generator wrote its whole document
CompleteDocs == {g \in 1..Len(Scenarios) : Scenarios[g].text = Stringify(Docs[g])}

\* every day that has a valid item, de-duplicated and cut to MAX_ITEMS
StreamedDocument == [g \in 1..Len(Docs) |-> NonEmptyDays(DedupedDays(ValidDays(Docs[g]), MAX_ITEMS))]

\* every day that has a valid item, de-duplicated only
UncappedDocument == [g \in 1..Len(Docs) |-> NonEmptyDays(DedupedDays(ValidDays(Docs[g]), 100))]

\* the days of the server's final payload, de-duplicated and cut to MAX_ITEMS
FinalDocument ==
  [g \in 1..Len(Scenarios) |->
     IF Terminals[g].event = "jsonFinal"
     THEN DedupedDays(FinalDays(JSONparse(Terminals[g].data).val).v, MAX_ITEMS)
     ELSE <<>>]

\* candidate lists: empty, with empty days, repeated venues, over-full days, more
\* days than the document
Candidates ==
  { <<>>,
    << <<>>, <<Item(<<"Zoo">>)>> >>,
    << <<Item(BalboaPark), Item(VisitBalboaPark), Item(<<"Zoo">>)>> >>,
    << <<Item(BalboaPark), Item(<<"Zoo">>), Item(<<"Pier">>), Item(<<"Museum">>), Item(<<"Beach">>),
         Item(<<"Cafe">>)>>,
       <<Item(VisitBalboaPark), Item(<<"Tower">>)>> >>,
    << <<Item(<<"ZOO">>), Item(<<"Zoo">>), Item(<<"Tower">>)>>, <<>>, <<Item(<<"Pier">>)>> >>,
    << <<Item(<<"Tower">>), Item(<<"Market">>), Item(<<"Garden">>), Item(<<"Lake">>),
         Item(<<"Harbor">>), Item(<<"Cafe">>), Item(<<"Beach">>)>> >> }

Streaming == gen # 0 /\ ~finalized

AllConsumed == Streaming /\ sent = Len(Scenarios[gen].text)

DayKeys(day) == [i \in 1..Len(day) |-> normalizeTitleKey(day[i].title)]

(***************************************************************************)
(* C1                                                                      *)
(***************************************************************************)
MergedTwice(merged, c) == mergePlanProgress(merged, c) = merged

IdempotentOn(doc, c) == MergedTwice(mergePlanProgress(doc, c), c)

\* C1: in every document state reached by streaming alone, for every candidate
\* list, merging the candidate a second time leaves the document exactly as the
\* first merge left it.
C1_MergeIdempotent == Streaming => \A c \in Candidates : IdempotentOn(planDays, c)

\* a streamed document with items that some candidate still changes
C1_Witness ==
  /\ Streaming
  /\ planDays # <<>>
  /\ \E c \in Candidates : mergePlanProgress(planDays, c) # planDays

(***************************************************************************)
(* C2                                                                      *)
(***************************************************************************)
\* C2 as stated: once every chunk has been consumed the document is every day
\* that has an item, its items de-duplicated by DedupKey in first-occurrence
\* order, whatever the chunking; the Balboa document gives one day with
\* Balboa Park and Zoo.
C2_Original ==
  (AllConsumed /\ gen \in CompleteDocs) =>
     /\ planDays = UncappedDocument[gen]
     /\ gen = 1 => planDays = << <<Item(BalboaPark), Item(<<"Zoo">>)>> >>

\* C2 amended: once every chunk has been consumed the document is, whatever the
\* chunking, every day that has a valid item, its valid items de-duplicated by
\* DedupKey in first-occurrence order and cut to the first MAX_ITEMS; the Balboa
\* document gives one day with Balboa Park and Zoo.
C2_ChunkingIndependent ==
  (AllConsumed /\ gen \in CompleteDocs) =>
     /\ planDays = StreamedDocument[gen]
     /\ gen = 1 => planDays = << <<Item(BalboaPark), Item(<<"Zoo">>)>> >>

\* the Balboa document consumed to its last chunk
C2_Witness ==
  /\ AllConsumed
  /\ gen = 1
  /\ lastEvent = "jsonDelta"
  /\ Len(planDays) = 1 /\ Len(planDays[1]) = 2

(***************************************************************************)
(* C3                                                                      *)
(***************************************************************************)
\* b holds every day and item of a at the same day index and item position
Extends(a, b) ==
  /\ Len(a) <= Len(b)
  /\ \A d \in 1..Len(a) :
       /\ Len(a[d]) <= Len(b[d])
       /\ \A i \in 1..Len(a[d]) : b[d][i] = a[d][i]
       /\ \A i \in 1..Len(a[d]) : \A j \in 1..Len(b[d]) : b[d][j] = a[d][i] => j = i

\* C3: when the buffer grows by a chunk, the extraction of the longer buffer
\* holds every day and item of the extraction of the shorter one at the same
\* day index and item position, none missing and none repeated.
C3_ExtractionMonotone ==
  [][(~finalized /\ jsonBuffer' # jsonBuffer /\ gen' = gen /\ sent' > sent) =>
       Extends(extractCompletedActivities(jsonBuffer), extractCompletedActivities(jsonBuffer'))]_vars

\* a buffer that already yields a day and has grown beyond it to a second day
C3_Witness ==
  /\ Streaming
  /\ Len(extractCompletedActivities(jsonBuffer)) = 2
  /\ sent < Len(Scenarios[gen].text)

(***************************************************************************)
(* C4                                                                      *)
(***************************************************************************)
\* src/unnamed/part_000 createSSEParser: the same loop, every frame handed on
createSSEParser(buffer, chunk) ==
  Let(Split(buffer \o chunk, 2), LAMBDA frames :
    [buffer |-> frames[Len(frames)],
     events |-> [i \in 1..(Len(frames) - 1) |-> FrameOf(frames[i])]])

AfterSecond(first, second, whole) ==
  /\ first.events \o second.events = whole.events
  /\ second.buffer = whole.buffer

AfterFirst(first, rest, whole) == AfterSecond(first, createSSEParser(first.buffer, rest), whole)

\* createSSEParser fed the text cut at position n gives what one chunk gives
TwoChunks(text, n) ==
  AfterFirst(createSSEParser(<<>>, SubSeq(text, 1, n)), SubSeq(text, n + 1, Len(text)),
             createSSEParser(<<>>, text))

SameAsOneChunk(whole) == delivered = whole.events /\ sseBuffer = whole.buffer

\* C4: however the text fed so far was cut into chunks, the frames delivered, in
\* order, and the residual are those of feeding that text as one chunk; the same
\* for the server-side parser and every cut of the text in two.
C4_ChunkIndependent ==
  /\ SameAsOneChunk(parseSSEStream(<<>>, SubSeq(sseText, 1, ssePos)))
  /\ TwoChunks(sseText, ssePos)

\* a frame has been delivered and the chunk boundary falls inside a separator
C4_Witness ==
  /\ delivered # <<>>
  /\ ssePos < Len(sseText)
  /\ sseBuffer # <<>> /\ sseBuffer[Len(sseBuffer)] = NL
  /\ sseText[ssePos + 1] = NL

(***************************************************************************)
(* C5                                                                      *)
(***************************************************************************)
\* C5: once a jsonFinal has been applied in a turn, every later jsonDelta of
\* the turn leaves the document unchanged; the latch opens only when a new turn
\* begins, which also clears the document.
C5_FinalizeLatch ==
  [][/\ (finalized /\ sent' > sent) => (planDays' = planDays /\ finalized')
     /\ (finalized /\ ~finalized') => (turns' = turns + 1 /\ planDays' = <<>>)]_vars

\* a jsonDelta handled after the final of the turn, the document still the final one
C5_Witness ==
  /\ finalized
  /\ terminal = "jsonFinal"
  /\ lastEvent = "jsonDelta"
  /\ gen = 2
  /\ planDays = FinalDocument[2]

(***************************************************************************)
(* C6                                                                      *)
(***************************************************************************)
\* C6: the step that applies the final document leaves exactly the final
\* document's days, each de-duplicated by DedupKey and cut to MAX_ITEMS,
\* whatever the document held before.
C6_FinalReplaces ==
  [][(terminal = "none" /\ terminal' = "jsonFinal") => planDays' = FinalDocument[gen]]_vars

TitlesOf(days) == UNION {{days[d][i].title : i \in 1..Len(days[d])} : d \in 1..Len(days)}

\* the final applied over a fully streamed document while an item of the
\* streamed document, absent from the final one, is being dragged
C6_Witness ==
  /\ lastEvent = "jsonFinal"
  /\ gen = 2
  /\ sent = Len(Scenarios[2].text)
  /\ drag # <<>>
  /\ drag[1].data.title \notin TitlesOf(planDays)
  /\ planDays = FinalDocument[2]

(***************************************************************************)
(* C7, C8, C9                                                              *)
(***************************************************************************)
NoRepeatedKey(keys) == \A i \in 1..Len(keys) : \A j \in 1..Len(keys) : keys[i] = keys[j] => i = j

\* C7: in every reachable state no day holds two items with the same DedupKey.
C7_NoDuplicateKey == \A d \in 1..Len(planDays) : NoRepeatedKey(DayKeys(planDays[d]))

\* C8: in every reachable state no day holds more than MAX_ITEMS items.
C8_AtMostMaxItems == \A d \in 1..Len(planDays) : Len(planDays[d]) <= MAX_ITEMS

\* C9: once the final document has been applied, every day holds at least
\* MIN_ITEMS and at most MAX_ITEMS items, until the next turn.
C9_BoundsOnceFinalized ==
  finalized => \A d \in 1..Len(planDays) : MIN_ITEMS <= Len(planDays[d]) /\ Len(planDays[d]) <= MAX_ITEMS

(***************************************************************************)
(* C10                                                                     *)
(***************************************************************************)
Without(days, d, i) == [days EXCEPT ![d] = RemoveAt(@, i - 1)]

Positions(days) == UNION {{<<d, i>> : i \in 1..Len(days[d])} : d \in 1..Len(days)}

\* after is before with one item taken from one place and put in one place
MovedOnce(before, after) ==
  \E p \in Positions(before) : \E q \in Positions(after) :
     /\ before[p[1]][p[2]] = after[q[1]][q[2]]
     /\ Without(before, p[1], p[2]) = Without(after, q[1], q[2])

\* C10: every drop is one step that leaves the document as it was or moves one
\* item from one place to one place; no item is added, removed or duplicated.
C10_DropConserves ==
  [][(drag # <<>> /\ drag' = <<>>) =>
       /\ Len(planDays') = Len(planDays)
       /\ planDays' = planDays \/ MovedOnce(planDays, planDays')]_vars

\* a drop has moved an item of the streamed five-item day into the other day
C10_Witness ==
  /\ drags > 0 /\ drag = <<>>
  /\ gen = 2 /\ ~finalized
  /\ Len(planDays) = 2
  /\ Len(planDays[1]) = 4 /\ Len(planDays[2]) = 3

(***************************************************************************)
(* C11                                                                     *)
(***************************************************************************)
\* after is before with the item at (s, i) taken out of day s and put at position
\* pos of day t, every other item where it was relative to its neighbours;
\* days and positions are 0-based
CrossDayEffect(before, after, s, i, t, pos) ==
  /\ Len(after) = Len(before)
  /\ Len(after[s + 1]) = Len(before[s + 1]) - 1
  /\ Len(after[t + 1]) = Len(before[t + 1]) + 1
  /\ after[t + 1][pos + 1] = before[s + 1][i + 1]
  /\ \A j \in 1..Len(after[s + 1]) : after[s + 1][j] = before[s + 1][IF j <= i THEN j ELSE j + 1]
  /\ \A j \in 1..Len(before[t + 1]) : after[t + 1][IF j <= pos THEN j ELSE j + 1] = before[t + 1][j]
  /\ \A d \in 1..Len(before) : (d # s + 1 /\ d # t + 1) => after[d] = before[d]

\* a drop of the item at (s, i) on the slot (t, k) of another day of the document
CrossDayDrop ==
  /\ drag # <<>> /\ drag' = <<>>
  /\ dropTarget # <<>>
  /\ dropTarget[1].day # drag[1].fromDay
  /\ drag[1].fromDay < Len(planDays) /\ dropTarget[1].day < Len(planDays)
  /\ drag[1].fromIndex < Len(planDays[drag[1].fromDay + 1])

\* C11: a cross-day move of the item at (s, i) to the slot (t, k) shortens day s
\* by one, lengthens day t by one, puts the item at position min(k, previous
\* length of day t) of day t and keeps the order of all other items.
C11_CrossDayMove ==
  [][CrossDayDrop =>
       CrossDayEffect(planDays, planDays', drag[1].fromDay, drag[1].fromIndex, dropTarget[1].day,
                      Min(dropTarget[1].index, Len(planDays[dropTarget[1].day + 1])))]_vars

\* the item at (0, 2) of the streamed document has been dropped on slot (1, 0)
C11_Witness ==
  /\ drags > 0 /\ drag = <<>>
  /\ gen = 2 /\ ~finalized
  /\ planDays = << <<Item(BalboaPark), Item(<<"Zoo">>), Item(<<"Museum">>), Item(<<"Beach">>)>>,
                   <<Item(<<"Pier">>), Item(VisitBalboaPark), Item(<<"Tower">>)>> >>

(***************************************************************************)
(* C12                                                                     *)
(***************************************************************************)
\* a drop with a recorded slot
SlotDrop == drag # <<>> /\ drag' = <<>> /\ dropTarget # <<>>

TargetInDocument(target, days) ==
  /\ target.day < Len(days)
  /\ 0 <= target.index /\ target.index <= Len(days[target.day + 1])

PutAt(days, t, pos, it) == [days EXCEPT ![t + 1] = InsertAt(@, Min(pos, Len(@)), it)]

\* days with the item at (s, i) moved to the slot (t, k)
MovedTo(days, s, i, t, k) == PutAt([days EXCEPT ![s + 1] = RemoveAt(@, i)], t, k, days[s + 1][i + 1])

ClampedDay(days, t) == Min(t.day, Len(days) - 1)

ClampedSlot(days, day, t) == [day |-> day, index |-> Min(t.index, Len(days[day + 1]))]

MovedToSlot(days, s, i, slot) == MovedTo(days, s, i, slot.day, slot.index)

C13_RoundTrip == ssePos = Len(sseText) => delivered = written

(***************************************************************************)
(* C14                                                                     *)
(***************************************************************************)
\* the final clamp returned days
Clamped == clamped # <<>> /\ clamped[1].ok

SuggestionKeys(doc) ==
  {normalizeTitleKey(Field(SuggestionsOf(doc)[i], "name")[1].v) : i \in 1..Len(SuggestionsOf(doc))}

AtMostFiveDistinct(day) == Len(day) <= MAX_ITEMS /\ NoRepeatedKey(DayKeys(day))

\* a day below the minimum already holds the title of every suggestion
ShortOnlyIfExhausted(day, keys, suggested) == Len(day) < MIN_ITEMS => suggested \subseteq Range(keys)

TitlesOfDay(day) == [i \in 1..Len(day) |-> day[i].title]

Backfillable(orig, suggested) ==
  /\ Len(orig) < MIN_ITEMS
  /\ Cardinality(suggested \ Range(DayKeys(orig))) >= MIN_ITEMS - Len(orig)

\* day is orig filled up: 3 to 5 items, no repeated DedupKey, orig first
Backfilled(orig, day) ==
  /\ MIN_ITEMS <= Len(day) /\ Len(day) <= MAX_ITEMS
  /\ NoRepeatedKey(DayKeys(day))
  /\ SubSeq(day, 1, Len(orig)) = orig

BackfilledIn(orig, suggested, d) ==
  Backfillable(orig, suggested) => (Clamped /\ d <= Len(clamped[1].v) /\ Backfilled(orig, clamped[1].v[d]))

GeneratedDays(doc) == DedupedDays(ValidDays(doc), MAX_ITEMS)

\* C15: a generated day that is below MIN_ITEMS after de-duplication, with enough
\* new titles among the suggestions, is returned with 3 to 5 items, no repeated
\* DedupKey, its own items first.
C15_Backfill ==
  clamped # <<>> =>
     \A d \in 1..Len(GeneratedDays(request[1].doc)) :
        BackfilledIn(GeneratedDays(request[1].doc)[d], SuggestionKeys(request[1].doc), d)

(***************************************************************************)
(* C16                                                                     *)
(***************************************************************************)
\* orig is short and the suggestions cannot fill it
Exhausted(orig, suggested) == Len(orig) < MIN_ITEMS /\ ~Backfillable(orig, suggested)

\* C16: when a generated day is below MIN_ITEMS after de-duplication and the
\* suggestions are empty or exhausted, the clamp still completes and the final
\* document is built; no error is raised.
C16_ShortDayEmitted ==
  clamped # <<>> =>
     \A d \in 1..Len(GeneratedDays(request[1].doc)) :
        Exhausted(GeneratedDays(request[1].doc)[d], SuggestionKeys(request[1].doc)) => Clamped

(***************************************************************************)
(* C17                                                                     *)
(***************************************************************************)
Plain(it) == [it EXCEPT !.image_url = <<>>]

ItemsIn(days) == UNION {{Plain(days[d][i]) : i \in 1..Len(days[d])} : d \in 1..Len(days)}

\* the items a turn can bring: those of its streamed text and of its final payload
\* <<g, it>>: the streamed text of turn g holds the item it in a closed day
StreamItems ==
  UNION {{<<g, it>> : it \in ItemsIn(extractCompletedActivities(Scenarios[g].text))} :
           g \in 1..Len(Scenarios)}

\* until the terminal frame the latch is open, the buffer is exactly the text
\* received in this turn and the document holds items of this turn's text only
StreamingTurnOwnsDocument ==
  (gen # 0 /\ terminal = "none") =>
     /\ ~finalized
     /\ jsonBuffer = SubSeq(Scenarios[gen].text, 1, sent)
     /\ \A it \in ItemsIn(planDays) : <<gen, it>> \in StreamItems

\* C17: the step that starts a turn leaves the document empty, the buffer empty
\* and the latch open; until the terminal frame the frames of the turn are merged
\* and the document and the buffer hold nothing of an earlier turn; the terminal
\* frame brings items of this turn's final document only, and no later step of
\* the turn brings an item in.
C17_NewTurnStartsClean ==
  /\ [][turns' = turns + 1 => (planDays' = <<>> /\ jsonBuffer' = <<>> /\ ~finalized')]_vars
  /\ []StreamingTurnOwnsDocument
  /\ [][(terminal = "none" /\ terminal' = "jsonFinal")
          => ItemsIn(planDays') \subseteq ItemsIn(FinalDocument[gen])]_vars
  /\ [][(terminal # "none" /\ turns' = turns) => ItemsIn(planDays') \subseteq ItemsIn(planDays)]_vars

\* the second turn has streamed its whole text into the document
C17_Witness ==
  /\ turns = 2
  /\ gen = 2
  /\ terminal = "none"
  /\ sent = Len(Scenarios[2].text)
  /\ planDays = extractCompletedActivities(Scenarios[2].text)
  /\ planDays # <<>>

(***************************************************************************)
(* C18                                                                     *)
(***************************************************************************)
\* planDays of the parsed payload is missing, no array, or holds a day that is no array
WrongShape(val) ==
  \/ Field(val, "planDays") = <<>>
  \/ Field(val, "planDays")[1].t # "arr"
  \/ \E d \in 1..Len(Field(val, "planDays")[1].v) : Field(val, "planDays")[1].v[d].t # "arr"

MalformedParse(p) == ~p.ok \/ WrongShape(p.val)

Malformed(data) == MalformedParse(JSONparse(data))

\* C18: a jsonFinal frame whose payload is no JSON or has not the expected shape
\* leaves the document as the last progressive merge left it.
C18_MalformedFinalKeeps ==
  [][\A data \in FinalPayloads : (Malformed(data) /\ FinalFrame(data)) => planDays' = planDays]_vars

(***************************************************************************)
(* C19                                                                     *)
(***************************************************************************)
\* C19: the step that handles a jsonFinal frame whose payload is no JSON or has
\* not the expected shape sets the turn's error state.
C19_FinalFailureSurfaced ==
  [][\A data \in FinalPayloads : (Malformed(data) /\ FinalFrame(data)) => errorText' # <<>>]_vars

(***************************************************************************)
(* C20                                                                     *)
(***************************************************************************)
\* the step on which the read fails
ReadFails == terminal # "failed" /\ terminal' = "failed"

\* no frame handler runs and the error state stays
NoFrameHandled ==
  /\ sent' = sent
  /\ jsonBuffer' = jsonBuffer
  /\ finalized' = finalized
  /\ planDays' = planDays
  /\ errorText' = errorText
  /\ lastEvent' = lastEvent

\* C20: the step on which the read fails leaves the document as it is, sets the
\* turn's error state and ends the turn; after it no frame is handled and the
\* error state stays until the next turn starts.
C20_ReadFailureKeepsDocument ==
  /\ [][ReadFails => (planDays' = planDays /\ errorText' # <<>> /\ ~loading')]_vars
  /\ [][(terminal = "failed" /\ turns' = turns) => NoFrameHandled]_vars

\* the read failed after part of the text had been merged
C20_Witness ==
  /\ terminal = "failed"
  /\ sent > 0
  /\ sent < Len(Scenarios[gen].text)
  /\ planDays = extractCompletedActivities(SubSeq(Scenarios[gen].text, 1, sent))
  /\ planDays # <<>>
  /\ errorText = <<(<<"Network error">>)>>
  /\ ~loading

(***************************************************************************)
(* C21                                                                     *)
(***************************************************************************)
FramesOf(events) == {i \in 1..Len(written) : written[i].event[1] \in events}

\* every jsonDelta before the terminal frame, at most one terminal frame,
\* nothing but the end frame after it; a closed response has its terminal frame
\* and ends with the end frame
WellOrdered ==
  /\ Cardinality(FramesOf({"jsonFinal", "error"})) <= 1
  /\ \A t \in FramesOf({"jsonFinal", "error"}) :
        /\ \A d \in FramesOf({"jsonDelta"}) : d < t
        /\ \A i \in (t + 1)..Len(written) : written[i] = EndFrame
  /\ FramesOf({"end"}) \subseteq {Len(written)}
  /\ (server = "closed") = (FramesOf({"end"}) # {})
  /\ server = "closed" => (Len(written) >= 2 /\ Len(written) - 1 \in FramesOf({"jsonFinal", "error"}))

\* C21: on a response that got its SSE headers, all jsonDelta frames precede one
\* terminal frame, jsonFinal or error and never both, the end frame is the last
\* frame written, and nothing is written once the response is closed.
C21_FrameOrder ==
  /\ []WellOrdered
  /\ [][server = "closed" => written' = written]_vars

\* a closed response with deltas, a ping and the final frame
C21_Witness ==
  /\ server = "closed"
  /\ Cardinality(FramesOf({"jsonDelta"})) >= 2
  /\ FramesOf({"ping"}) # {}
  /\ FramesOf({"jsonFinal"}) # {}
  /\ written[Len(written)] = EndFrame

(***************************************************************************)
(* C22                                                                     *)
(***************************************************************************)
\* C22: a drag session exists only while the pointer is down, it starts only in
\* the Calendar layout, and after the pointer-up the session and the hovered
\* slot are both cleared.
C22_DragSession ==
  /\ [](drag # <<>> => pointer = "down")
  /\ [](drag = <<>> => dropTarget = <<>>)
  /\ [][(drag = <<>> /\ drag' # <<>>) => view = "Calendar"]_vars
  /\ [][(pointer = "down" /\ pointer' = "up") => (drag' = <<>> /\ dropTarget' = <<>>)]_vars

(***************************************************************************)
(* C23                                                                     *)
(***************************************************************************)
HasItemAt(days, d, i) == d < Len(days) /\ i < Len(days[d + 1])

\* after is before with at most the image of the item at (d, i) changed
PatchedAt(before, after, d, i) ==
  IF HasItemAt(before, d, i)
  THEN /\ Len(after) = Len(before)
       /\ \A e \in 1..Len(before) :
             /\ Len(after[e]) = Len(before[e])
             /\ \A j \in 1..Len(before[e]) :
                   IF e = d + 1 /\ j = i + 1
                   THEN Plain(after[e][j]) = Plain(before[e][j])
                   ELSE after[e][j] = before[e][j]
  ELSE after = before

\* C23: a planImage frame for (dayIdx, itemIdx) changes at most the image of the
\* item at that position; days, lengths, order, titles, descriptions and costs
\* stay, and without an item at that position the document is unchanged.
C23_PatchOnlyImage ==
  [][\A d \in 0..1, i \in 0..1 : PlanImage(d, i, "img") => PatchedAt(planDays, planDays', d, i)]_vars

\* a patch has set the image of the second item of the first day and of no other item
C23_Witness ==
  /\ lastEvent = "planImage"
  /\ HasItemAt(planDays, 0, 2)
  /\ planDays[1][2].image_url = <<"img">>
  /\ planDays[1][1].image_url = <<>>
  /\ planDays[1][3].image_url = <<>>

(***************************************************************************)
(* C24                                                                     *)
(***************************************************************************)
\* the decimal numerals of the non-negative integers of the cost texts
Numerals == {"0", "5", "10", "25", "40", "50", "100"}

\* "free", "$N", or "$A<en dash>$B" with A < B
Canonical(cost) ==
  \/ cost = <<"free">>
  \/ Len(cost) = 2 /\ cost[1] = "$" /\ cost[2] \in Numerals
  \/ /\ Len(cost) = 5
     /\ cost[1] = "$" /\ cost[2] \in Numerals /\ cost[3] = EnDash /\ cost[4] = "$" /\ cost[5] \in Numerals
     /\ NumVal(cost[2]) < NumVal(cost[5])

Returned(input, cost) == (arg.input = input /\ result # <<>>) => result[1] = cost

\* C24: coerceCost returns undefined or a canonical cost; undefined for an absent
\* or empty text, "$10" for "$10", "$25<en dash>$40" for "$25 to $40" and "free"
\* for "Free entry".
C24_CanonicalCost ==
  (arg # <<>> /\ arg.fn = "coerceCost") =>
     /\ result # <<>> => (result[1] = <<>> \/ Canonical(result[1][1]))
     /\ Returned(<<>>, <<>>)
     /\ Returned(<<(<<>>)>>, <<>>)
     /\ Returned(<<(<<"$", "10">>)>>, <<(<<"$", "10">>)>>)
     /\ Returned(<<(<<"$", "25", SP, "to", SP, "$", "40">>)>>, <<(<<"$", "25", EnDash, "$", "40">>)>>)
     /\ Returned(<<(<<"Free", SP, "entry">>)>>, <<(<<"free">>)>>)

\* a range written with the larger number first and a leading zero came back
\* in canonical form
C24_Witness ==
  /\ arg # <<>>
  /\ arg.fn = "coerceCost"
  /\ arg.input = <<(<<"25", "-", "05">>)>>
  /\ result = <<(<<(<<"$", "5", EnDash, "$", "25">>)>>)>>

(***************************************************************************)
(* C25                                                                     *)
(***************************************************************************)
\* C25: for every title and every generic verb, in any letter case, the key of
\* the verb, a space and the title is the key of the title.
C25_VerbPrefixIgnored ==
  (arg # <<>> /\ arg.fn = "normalizeTitleKey" /\ result # <<>>) => result[1].prefixed = result[1].plain

(***************************************************************************)
(* C26                                                                     *)
(***************************************************************************)
ItemsOfDay(day) == {Plain(day[i]) : i \in 1..Len(day)}

\* C26: while the frames of a turn arrive, with drops between them, no item is
\* in two days of the document.
C26_NoItemInTwoDays ==
  (gen # 0 /\ terminal = "none") =>
     \A d \in 1..Len(planDays) : \A e \in 1..Len(planDays) :
        d # e => ItemsOfDay(planDays[d]) \cap ItemsOfDay(planDays[e]) = {}

\* the bucket before is the beginning of the bucket after
KeptAsPrefix(before, after) ==
  /\ Len(before) <= Len(after)
  /\ SubSeq(after, 1, Len(before)) = before

\* C27: a jsonDelta frame removes or reorders no item of the document, drag
\* moves included: every day before the merge is a prefix of the day after it.
C27_MergeKeepsPrefix ==
  [][sent' > sent =>
       /\ Len(planDays) <= Len(planDays')
       /\ \A d \in 1..Len(planDays) : KeptAsPrefix(planDays[d], planDays'[d])]_vars

\* the item of the drag snapshot is at the position the drag started from
SnapshotInPlace ==
  /\ drag # <<>>
  /\ HasItemAt(planDays, drag[1].fromDay, drag[1].fromIndex)
  /\ Plain(planDays[drag[1].fromDay + 1][drag[1].fromIndex + 1]) = Plain(drag[1].data)

\* C28: a drop relocates the item captured at pointer-down, whatever frames and
\* resets came between pointer-down and pointer-up: a drop that finds another
\* item, or none, at the source position leaves the document as it is.
C28_DropMovesSnapshot ==
  [][(drag # <<>> /\ drag' = <<>> /\ ~SnapshotInPlace) => planDays' = planDays]_vars

\* <<g, d, it>>: the generator of scenario g wrote the valid item it into day d
\* (1-based here) of its planDays
GeneratorPlaces ==
  UNION {UNION {{<<g, d, ValidDays(Docs[g])[d][i]>> : i \in 1..Len(ValidDays(Docs[g])[d])} :
                   d \in 1..Len(ValidDays(Docs[g]))} : g \in 1..Len(Docs)}

\* C29: while a turn streams, every item of document day d is an item the
\* generator wrote into day d of its planDays, empty and invalid days included.
C29_DayIndexKept ==
  (gen # 0 /\ terminal = "none") =>
     \A d \in 1..Len(planDays) : \A i \in 1..Len(planDays[d]) :
        <<gen, d, Plain(planDays[d][i])>> \in GeneratorPlaces

\* the buffer with the day that is being read closed: the scanner closes the day
\* at this bracket whenever it is inside one, and hands over the objects it has
\* seen closed in it
DayClosed(buffer) == buffer \o <<"]">>

\* C30: every object that is closed inside a day of the buffer is in the result
\* of extractCompletedActivities, whether or not the bracket that closes the day
\* has been read: closing the day adds no item to the result.
C30_ItemsBeforeDayCloses ==
  (gen # 0 /\ ~finalized) =>
     ItemsIn(extractCompletedActivities(DayClosed(jsonBuffer)))
        \subseteq ItemsIn(extractCompletedActivities(jsonBuffer))

\* the 1-based index, in the text of document doc, of the bracket that closes
\* day d of planDays: planDays is the last member of the document
RECURSIVE DaysLen(_, _)
DaysLen(days, d) == IF d = 0 THEN 0 ELSE DaysLen(days, d - 1) + Len(Stringify(days[d])) + 1

DayEnd(doc, d) ==
  Let(Field(doc, "planDays")[1], LAMBDA arr :
    Len(Stringify(doc)) - Len(Stringify(arr)) + DaysLen(arr.v, d) - 1)

\* <<g, n, it>>: the generator of scenario g wrote the valid item it into a day
\* of planDays whose closing bracket is the n-th token of its text
ClosedPlaces ==
  UNION {UNION {{<<g, DayEnd(Docs[g], d), ValidDays(Docs[g])[d][i]>> :
                    i \in 1..Len(ValidDays(Docs[g])[d])} :
                  d \in 1..Len(ValidDays(Docs[g]))} : g \in 1..Len(Docs)}

MaxTrickyLen == 2

TrickyAlphabet == {"[", "]", "{", "}", Quote, Backslash, ",", "Zoo"}

TrickyTitles == UNION {[1..n -> TrickyAlphabet] : n \in 0..MaxTrickyLen}

\* a day of two items and a day of one item
TrickyDoc(t1, t2) ==
  GenDoc(<<>>, << <<GenItem(t1), GenItem(<<"Pier">>)>>, <<GenItem(t2)>> >>)

InitExtract ==
  /\ InitClient
  /\ request = <<>>
  /\ arg \in {[fn |-> "extractCompletedActivities", input |-> TrickyDoc(t1, t2)] :
                t1 \in TrickyTitles, t2 \in TrickyTitles}
  /\ sseText = <<>>
  /\ ssePos = 0
  /\ sseBuffer = <<>>
  /\ delivered = <<>>
  /\ written = <<>>

\* the generator's whole text, JSON.stringify of the document, is extracted
CallExtract ==
  /\ arg # <<>>
  /\ arg.fn = "extractCompletedActivities"
  /\ result = <<>>
  /\ result' = <<extractCompletedActivities(Stringify(arg.input))>>
  /\ UNCHANGED <<arg, clientVars, dragVars, sseVars, serverVars, lastEvent>>

NextExtract == CallExtract

SpecExtract == InitExtract /\ [][NextExtract]_vars

\* C32: brackets, braces and quotes inside string literals, escaped quotes and
\* escaped backslashes included, do not change the nesting depths: for a whole
\* valid document the result is the valid items of every non-empty day of
\* planDays, de-duplicated, cut to MAX_ITEMS, in document order.
C32_StringsAreOpaque ==
  result # <<>> =>
     result[1] = NonEmptyDays(DedupedDays(ValidDays(arg.input), MAX_ITEMS))

\* a title that ends with a backslash and one that begins with a quote and a bracket
C32_Witness ==
  /\ result # <<>>
  /\ arg.input = TrickyDoc(<<"]", Backslash>>, <<Quote, "[">>)
  /\ Len(result[1]) = 2
  /\ result[1][1][1].title = <<"]", Backslash>>
  /\ result[1][2][1].title = <<Quote, "[">>

\* the generator's plan has a day outside 3..5 items or an item that is not valid
Offending(doc) ==
  Let(Field(doc, "planDays")[1].v, LAMBDA days :
    \E d \in 1..Len(days) :
       \/ Len(days[d].v) < MIN_ITEMS
       \/ Len(days[d].v) > MAX_ITEMS
       \/ \E i \in 1..Len(days[d].v) : ~isStrictItem(days[d].v[i]))

\* C33: when the generator's plan has an offending day or item, the final plan is
\* still built from the generator's days: the titles of every generated day that
\* holds at least MIN_ITEMS items after de-duplication and truncation to MAX_ITEMS
\* are in the same day of the final plan.
C33_OtherDaysKept ==
  (clamped # <<>> /\ Offending(request[1].doc)) =>
     \A d \in 1..Len(GeneratedDays(request[1].doc)) :
        (MIN_ITEMS <= Len(GeneratedDays(request[1].doc)[d])) =>
           /\ Clamped
           /\ d <= Len(clamped[1].v)
           /\ TitlesOf(<<GeneratedDays(request[1].doc)[d]>>) \subseteq TitlesOf(<<clamped[1].v[d]>>)

\* C34: a planImage patch that arrives after the final document of the turn was
\* applied sets the image of the item it addresses.
C34_PatchAfterFinal ==
  [][\A d \in 0..1, i \in 0..1 :
       (finalized /\ HasItemAt(planDays, d, i) /\ PlanImage(d, i, "img"))
          => planDays'[d + 1][i + 1].image_url = <<"img">>]_vars

(***************************************************************************)
(* A planImage patch in flight: it is produced for the item at a position  *)
(* of the document and applied when its frame arrives, while the user      *)
(* drags.  arg holds the patch with the item it was produced for.          *)
(***************************************************************************)
\* the enrichment of the item at (dayIdx, itemIdx) is started
ProducePatch(dayIdx, itemIdx) ==
  /\ loading
  /\ ~finalized
  /\ arg = <<>>
  /\ HasItemAt(planDays, dayIdx, itemIdx)
  /\ arg' = <<[gen |-> gen, dayIdx |-> dayIdx, itemIdx |-> itemIdx,
               item |-> Plain(planDays[dayIdx + 1][itemIdx + 1])]>>
  /\ UNCHANGED <<result, clientVars, dragVars, sseVars, serverVars, lastEvent>>

\* its planImage frame arrives on the stream of the same turn
DeliverPatch ==
  /\ arg # <<>>
  /\ arg[1].gen = gen
  /\ PlanImage(arg[1].dayIdx, arg[1].itemIdx, "img")

NextPatch ==
  \/ Submit(1)
  \/ JsonDelta(ChunkLen)
  \/ TerminalFrame(Terminals[gen])
  \/ StreamEnd
  \/ switchToCalendar
  \/ switchToMap
  \/ PointerDown
  \/ \E t \in Slots(planDays) : onPointerMove(t)
  \/ onPointerUp
  \/ \E d \in 0..(Len(planDays) - 1) : \E i \in 0..(Len(planDays[d + 1]) - 1) : ProducePatch(d, i)
  \/ DeliverPatch

SpecPatch == Init /\ [][NextPatch]_vars

\* C35: the image of a patch is only ever on the item that was at the addressed
\* position when the patch was produced, whatever moves and merges come between.
C35_PatchOnItsItem ==
  \A d \in 1..Len(planDays) : \A i \in 1..Len(planDays[d]) :
     planDays[d][i].image_url = <<"img">> => (arg # <<>> /\ Plain(planDays[d][i]) = arg[1].item)

\* day with the item at index f taken out and put directly before the item that
\* was at index t, last when t is the length of day (indices 0-based)
DroppedOnSlot(day, f, t) ==
  InsertAt(RemoveAt(day, f), IF t > f THEN t - 1 ELSE t, day[f + 1])

\* C36: a same-day drop on slot t puts the dragged item directly before the item
\* that was at index t, last when t is the day's length; a drop on the slot
\* directly before or directly after the dragged item leaves the day as it was.
C36_SameDaySlot ==
  [][(SnapshotInPlace /\ dropTarget # <<>> /\ drag' = <<>>
        /\ computeFinalTarget(drag[1], dropTarget, planDays).day = drag[1].fromDay)
       => planDays'[drag[1].fromDay + 1] =
            DroppedOnSlot(planDays[drag[1].fromDay + 1], drag[1].fromIndex,
                          computeFinalTarget(drag[1], dropTarget, planDays).index)]_vars

\* the values of the data lines of a frame, in order, one leading space and the
\* carriage return at the end taken off each
DataValues(frame) ==
  Let(SelectSeq(Split(frame, 1), LAMBDA raw : raw # <<>> /\ raw[1] = "data:"), LAMBDA lines :
    [i \in 1..Len(lines) |-> StripTrailingCR(StripLeadingSpace(Tail(lines[i])))])

\* the values with a newline between every two consecutive ones
RECURSIVE JoinLines(_)
JoinLines(values) ==
  IF values = <<>> THEN <<>>
  ELSE IF Len(values) = 1 THEN values[1]
  ELSE values[1] \o <<NL>> \o JoinLines(Tail(values))

\* the complete frames of a text: the blocks that end with the blank line
CompleteFrames(text) == Let(Split(text, 2), LAMBDA frames : SubSeq(frames, 1, Len(frames) - 1))

\* C37: the payload handed on for a frame is the values of all its data lines, in
\* order, joined by a newline between every two consecutive lines, empty lines
\* included.
C37_DataLinesJoined ==
  (ssePos = Len(sseText) /\ Len(delivered) = Len(CompleteFrames(sseText))) =>
     \A i \in 1..Len(delivered) :
        delivered[i].data = JoinLines(DataValues(CompleteFrames(sseText)[i]))

\* C38: a frame is handed on only once its blank line has been received: the
\* frames handed on are never more than the blocks of the received text that end
\* with the blank line, and the flush at the end of the stream hands on nothing
\* and drops no error: the residual block stays unread in the buffer.
C38_OnlyTerminatedFrames ==
  /\ [](Len(delivered) <= Len(CompleteFrames(SubSeq(sseText, 1, ssePos))))
  /\ [][(ssePos = Len(sseText) /\ ssePos' = ssePos)
          => (delivered' = delivered /\ sseBuffer' = sseBuffer)]_vars

\* the stream ended behind a frame that lacks its blank line: nothing was handed on
C38_Witness ==
  /\ sseText = <<"event:", "x", NL, "data:", "x">>
  /\ ssePos = Len(sseText)
  /\ sseBuffer = sseText
  /\ delivered = <<>>

\* C39: a submit while a stream is being read clears neither the buffer, the
\* latch nor the document and opens no second stream: the turn and the
\* position in its text stay what they were.
C39_OneStream ==
  [][\A g \in MainScenarios :
       (loading /\ Submit(g)) =>
          UNCHANGED <<planDays, jsonBuffer, finalized, loading, gen, sent, terminal, turns>>]_vars

\* a submit came while the stream of a turn was open behind its error frame: it
\* cleared the error text and nothing else
C39_Witness ==
  /\ loading
  /\ terminal = "error"
  /\ errorText = <<>>
  /\ jsonBuffer # <<>>

\* a text of one or more "$" and nothing else
PriceTier(input) ==
  /\ input # <<>>
  /\ Len(input[1]) >= 1
  /\ \A i \in 1..Len(input[1]) : input[1][i] = "$"

\* C40: coerceCost maps every symbolic price tier, "$", "$$", "$$$" and four or
\* more "$", to a canonical range "$A<en dash>$B"; none of them gives undefined.
C40_TiersMapped ==
  (arg # <<>> /\ arg.fn = "coerceCost" /\ PriceTier(arg.input) /\ result # <<>>) =>
     /\ result[1] # <<>>
     /\ Canonical(result[1][1])
     /\ Len(result[1][1]) = 5

====
